---- MODULE Spec2Model ----
(***************************************************************************)
(* FAnalysis web front end: the indicator-to-subplot rendering pipeline of *)
(* web/src/components/ChartAnalysis.js (classifier, indicator styling,     *)
(* trace builders, preparePlotData, preparePlotLayout), and the            *)
(* ChartAnalysis component around it: its chart-data requests, their       *)
(* outcomes in any order, and renderContent after each state update.       *)
(*                                                                         *)
(* JavaScript values are tagged records; strings that the code inspects    *)
(* character by character (startsWith, endsWith, includes) are looked up   *)
(* in Chars, the table of their characters.  Non-ASCII text of the source  *)
(* is written <U+XXXX> per code point.                                      *)
(***************************************************************************)
EXTENDS Integers, Sequences, FiniteSets, TLC

VARIABLES
    INDICATOR_CONFIG,   \* the module-level configuration object (mutable in JS)
    symbol,             \* route parameter of the ChartAnalysis component
    chartData,          \* component state: the rows of the last response
    plotData,           \* the trace list returned by preparePlotData
    parts,              \* what each trace builder returned in that call
    priceTrace,         \* the return value of a direct createPriceTrace call
    called,             \* the operations applied so far
    key,                \* an indicator name given to the classifier or styler
    subplot,            \* the result of getIndicatorSubplot(key)
    styleOfKey,         \* the result of getIndicatorStyle(key, values)
    loading,            \* component state: a chart-data fetch is under way
    error,              \* component state: null or the message to show
    selectedParameterSet, \* component state: the chosen parameter set
    period,             \* component state: the chosen period
    parameterSets,      \* component state: the parameter sets on offer
    parametersLoading,  \* component state: getParameters is under way
    requests,           \* the getChartData calls awaiting their outcome
    issued,             \* the number of getChartData calls made so far
    committed,          \* the call whose response chartData holds, 0 if none
    view,               \* what renderContent returned in the last render
    plotLayout,         \* the layout returned by preparePlotLayout
    last,               \* the event handled last
    selectedSymbol,     \* DetailedReport state: the chosen symbol
    language,           \* DetailedReport state: the chosen language
    reportUrl,          \* DetailedReport state: null or the report's URL
    reportContent,      \* DetailedReport state: the HTML shown
    assetCategories,    \* DetailedReport state: the symbols on offer
    reportAlreadyLoaded, \* ref of the ref-guarded DetailedReport
    initialDataLoaded,  \* ref of the ref-guarded DetailedReport
    generatingReport,   \* ref of the ref-guarded DetailedReport
    reportState,        \* useReportManager state
    debounced,          \* the four useDebounce values of the hook-based page
    calls,              \* the async calls of the report page awaiting a response
    sent,               \* the number of requests sent so far, by endpoint
    recentReports,      \* useRecentReports state: the reports listed
    settled,            \* how the last getRecentReports call settled
    interactions        \* the number of changes and clicks of the user so far

\* The state of a mounted ChartAnalysis component besides chartData.
componentVars ==
    <<loading, error, selectedParameterSet, period, parameterSets,
      parametersLoading, requests, issued, committed, view, plotLayout, last>>

\* The state of the report pages and of the dashboard's report list.
reportVars ==
    <<selectedSymbol, language, reportUrl, reportContent, assetCategories,
      reportAlreadyLoaded, initialDataLoaded, generatingReport, reportState,
      debounced, calls, sent, recentReports, settled, interactions>>

vars == <<INDICATOR_CONFIG, symbol, chartData, plotData, parts, priceTrace,
          called, key, subplot, styleOfKey, componentVars, reportVars>>

---------------------------------------------------------------------------
\* Bounds of the model.

\* Largest number of rows in a response.
MaxRows == 2

\* Largest number of getChartData calls of one mounted component.
MaxRequests == 2

---------------------------------------------------------------------------
\* JavaScript values of a cell: undefined (absent key), null, NaN, Infinity,
\* and finite numbers.

Undefined == [tag |-> "undefined"]
Null == [tag |-> "null"]
NaN == [tag |-> "NaN"]
Infinity == [tag |-> "Infinity"]
Num(n) == [tag |-> "number", n |-> n]

\* The finite numbers of the value series: negative, zero, positive.
FiniteValues == {Num(0 - 1), Num(0), Num(1)}
NonFiniteValues == {Undefined, Null, NaN, Infinity}
Values == FiniteValues \cup NonFiniteValues

\* parseFloat(value): the number a value's string form starts with.
parseFloat(value) ==
    IF value.tag \in {"number", "Infinity"} THEN value ELSE NaN

\* ToNumber, as the globals isNaN and isFinite and the operator >= apply it.
ToNumber(value) ==
    CASE value.tag = "null" -> Num(0)
      [] value.tag = "undefined" -> NaN
      [] OTHER -> value

isNaN(value) == ToNumber(value).tag = "NaN"
isFinite(value) == ToNumber(value).tag = "number"

\* v >= 0 in JavaScript: false when ToNumber(v) is NaN.
GreaterOrEqualZero(v) ==
    LET n == ToNumber(v)
    IN  \/ n.tag = "Infinity"
        \/ n.tag = "number" /\ n.n >= 0

isNumeric(value) ==
    /\ value # Null
    /\ value # Undefined
    /\ ~isNaN(parseFloat(value))
    /\ isFinite(value)

---------------------------------------------------------------------------
\* Strings.

Chars ==
  [ ADX |-> <<"A", "D", "X">>,
    ATR |-> <<"A", "T", "R">>,
    ATR_Percent |-> <<"A", "T", "R", "_", "P", "e", "r", "c", "e", "n", "t">>,
    BB_High |-> <<"B", "B", "_", "H", "i", "g", "h">>,
    BB_Low |-> <<"B", "B", "_", "L", "o", "w">>,
    BB_Mid |-> <<"B", "B", "_", "M", "i", "d">>,
    BB_Tight_High |-> <<"B", "B", "_", "T", "i", "g", "h", "t", "_", "H", "i", "g", "h">>,
    BB_Tight_Low |-> <<"B", "B", "_", "T", "i", "g", "h", "t", "_", "L", "o", "w">>,
    BB_Tight_Mid |-> <<"B", "B", "_", "T", "i", "g", "h", "t", "_", "M", "i", "d">>,
    BB_Wide_High |-> <<"B", "B", "_", "W", "i", "d", "e", "_", "H", "i", "g", "h">>,
    BB_Wide_Low |-> <<"B", "B", "_", "W", "i", "d", "e", "_", "L", "o", "w">>,
    BB_Wide_Mid |-> <<"B", "B", "_", "W", "i", "d", "e", "_", "M", "i", "d">>,
    EMA |-> <<"E", "M", "A">>,
    EMA10 |-> <<"E", "M", "A", "1", "0">>,
    EMA100 |-> <<"E", "M", "A", "1", "0", "0">>,
    EMA12 |-> <<"E", "M", "A", "1", "2">>,
    EMA150 |-> <<"E", "M", "A", "1", "5", "0">>,
    EMA20 |-> <<"E", "M", "A", "2", "0">>,
    EMA200 |-> <<"E", "M", "A", "2", "0", "0">>,
    EMA26 |-> <<"E", "M", "A", "2", "6">>,
    EMA5 |-> <<"E", "M", "A", "5">>,
    EMA50 |-> <<"E", "M", "A", "5", "0">>,
    EMA9 |-> <<"E", "M", "A", "9">>,
    Histogram |-> <<"H", "i", "s", "t", "o", "g", "r", "a", "m">>,
    Ichimoku_Chikou |-> <<"I", "c", "h", "i", "m", "o", "k", "u", "_", "C", "h", "i", "k", "o", "u">>,
    Ichimoku_Kijun |-> <<"I", "c", "h", "i", "m", "o", "k", "u", "_", "K", "i", "j", "u", "n">>,
    Ichimoku_SpanA |-> <<"I", "c", "h", "i", "m", "o", "k", "u", "_", "S", "p", "a", "n", "A">>,
    Ichimoku_SpanB |-> <<"I", "c", "h", "i", "m", "o", "k", "u", "_", "S", "p", "a", "n", "B">>,
    Ichimoku_Tenkan |-> <<"I", "c", "h", "i", "m", "o", "k", "u", "_", "T", "e", "n", "k", "a", "n">>,
    Keltner_High |-> <<"K", "e", "l", "t", "n", "e", "r", "_", "H", "i", "g", "h">>,
    Keltner_Low |-> <<"K", "e", "l", "t", "n", "e", "r", "_", "L", "o", "w">>,
    Keltner_Mid |-> <<"K", "e", "l", "t", "n", "e", "r", "_", "M", "i", "d">>,
    MACD |-> <<"M", "A", "C", "D">>,
    MACD_HF |-> <<"M", "A", "C", "D", "_", "H", "F">>,
    MACD_HF_Histogram |-> <<"M", "A", "C", "D", "_", "H", "F", "_", "H", "i", "s", "t", "o", "g", "r", "a", "m">>,
    MACD_HF_Signal |-> <<"M", "A", "C", "D", "_", "H", "F", "_", "S", "i", "g", "n", "a", "l">>,
    MACD_Histogram |-> <<"M", "A", "C", "D", "_", "H", "i", "s", "t", "o", "g", "r", "a", "m">>,
    MACD_Signal |-> <<"M", "A", "C", "D", "_", "S", "i", "g", "n", "a", "l">>,
    NDI |-> <<"N", "D", "I">>,
    OBV |-> <<"O", "B", "V">>,
    OBV_MA |-> <<"O", "B", "V", "_", "M", "A">>,
    PDI |-> <<"P", "D", "I">>,
    RSI |-> <<"R", "S", "I">>,
    RSI7 |-> <<"R", "S", "I", "7">>,
    SAR |-> <<"S", "A", "R">>,
    SMA |-> <<"S", "M", "A">>,
    SMA10 |-> <<"S", "M", "A", "1", "0">>,
    SMA100 |-> <<"S", "M", "A", "1", "0", "0">>,
    SMA150 |-> <<"S", "M", "A", "1", "5", "0">>,
    SMA20 |-> <<"S", "M", "A", "2", "0">>,
    SMA200 |-> <<"S", "M", "A", "2", "0", "0">>,
    SMA21 |-> <<"S", "M", "A", "2", "1">>,
    SMA5 |-> <<"S", "M", "A", "5">>,
    SMA50 |-> <<"S", "M", "A", "5", "0">>,
    SMA9 |-> <<"S", "M", "A", "9">>,
    STOCH_D |-> <<"S", "T", "O", "C", "H", "_", "D">>,
    STOCH_K |-> <<"S", "T", "O", "C", "H", "_", "K">>,
    Date |-> <<"D", "a", "t", "e">>,
    Open |-> <<"O", "p", "e", "n">>,
    High |-> <<"H", "i", "g", "h">>,
    Low |-> <<"L", "o", "w">>,
    Close |-> <<"C", "l", "o", "s", "e">>,
    Volume |-> <<"V", "o", "l", "u", "m", "e">>,
    RSI_14 |-> <<"R", "S", "I", "_", "1", "4">>,
    MACD_HF_Fast |-> <<"M", "A", "C", "D", "_", "H", "F", "_", "F", "a", "s", "t">>,
    Fast_RSI |-> <<"F", "a", "s", "t", "_", "R", "S", "I">>,
    Signal |-> <<"S", "i", "g", "n", "a", "l">>,
    Mid |-> <<"M", "i", "d">>,
    D |-> <<"D">>,
    VWAP |-> <<"V", "W", "A", "P">>,
    SMA_RSI |-> <<"S", "M", "A", "_", "R", "S", "I">>,
    EMA_D |-> <<"E", "M", "A", "_", "D">> ]

Names == DOMAIN Chars

\* a.startsWith(b), a.endsWith(b), a.includes(b) on character sequences.
StartsWith(a, b) == Len(b) <= Len(a) /\ SubSeq(a, 1, Len(b)) = b
EndsWith(a, b) ==
    Len(b) <= Len(a) /\ SubSeq(a, Len(a) - Len(b) + 1, Len(a)) = b
Includes(a, b) ==
    \E i \in 0..(Len(a) - Len(b)) : SubSeq(a, i + 1, i + Len(b)) = b

\* The elements of an array.
Range(seq) == {seq[i] : i \in 1..Len(seq)}

\* array.includes(x)
ArrayIncludes(array, x) == \E i \in 1..Len(array) : array[i] = x

\* { ...a, ...b }
Spread(a, b) ==
    [f \in (DOMAIN a) \cup (DOMAIN b) |-> IF f \in DOMAIN b THEN b[f] ELSE a[f]]

---------------------------------------------------------------------------
\* Configuration tables.

DEFAULT_VISIBLE_INDICATORS ==
  [ mainPlot |-> <<"SMA20", "SMA50", "SMA200", "EMA20">>,
    oscillators |-> <<"RSI", "STOCH_K", "STOCH_D">>,
    macd |-> <<"MACD", "MACD_Signal", "MACD_Histogram">>,
    bollinger |-> <<"BB_High", "BB_Mid", "BB_Low">>,
    volume |-> <<"OBV", "OBV_MA">>,
    hidden |-> <<"SMA5", "SMA9", "SMA10", "SMA21", "SMA100", "SMA150", "EMA5", "EMA9", "EMA10", "EMA12", "EMA26", "EMA50", "EMA100", "EMA150", "EMA200", "BB_Tight_High", "BB_Tight_Mid", "BB_Tight_Low", "BB_Wide_High", "BB_Wide_Mid", "BB_Wide_Low", "RSI7", "MACD_HF", "MACD_HF_Signal", "MACD_HF_Histogram", "Keltner_High", "Keltner_Mid", "Keltner_Low">> ]

subplots ==
  << [axis |-> "y2", indicators |->
        <<"RSI", "STOCH_K", "STOCH_D", "ADX", "RSI7", "PDI", "NDI">>],
     [axis |-> "y3", indicators |->
        <<"MACD", "MACD_Signal", "MACD_Histogram", "MACD_HF", "MACD_HF_Signal", "MACD_HF_Histogram">>],
     [axis |-> "y4", indicators |->
        <<"BB_High", "BB_Mid", "BB_Low", "BB_Tight_High", "BB_Tight_Mid", "BB_Tight_Low", "BB_Wide_High", "BB_Wide_Mid", "BB_Wide_Low", "Ichimoku_Tenkan", "Ichimoku_Kijun", "Ichimoku_SpanA", "Ichimoku_SpanB", "Ichimoku_Chikou", "SAR", "ATR", "ATR_Percent">>],
     [axis |-> "y5", indicators |->
        <<"OBV", "OBV_MA">>] >>

styling ==
  [ BB_High |->
        [line |-> [color |-> "rgba(65, 105, 225, 0.9)", width |-> "2"], name |-> "<U+5E03><U+6797><U+4E0A><U+8F68>", visible |-> TRUE],
    BB_Mid |->
        [line |-> [color |-> "rgba(65, 105, 225, 0.9)", dash |-> "dash", width |-> "2"], name |-> "<U+5E03><U+6797><U+4E2D><U+8F68>", visible |-> TRUE],
    BB_Low |->
        [line |-> [color |-> "rgba(65, 105, 225, 0.9)", width |-> "2"], fill |-> "tonexty", fillcolor |-> "rgba(65, 105, 225, 0.15)", name |-> "<U+5E03><U+6797><U+4E0B><U+8F68>", visible |-> TRUE],
    BB_Tight_High |->
        [line |-> [color |-> "rgba(30, 144, 255, 0.8)", width |-> "1.5"], name |-> "<U+7D27><U+5E03><U+6797><U+4E0A><U+8F68>", visible |-> FALSE],
    BB_Tight_Mid |->
        [line |-> [color |-> "rgba(30, 144, 255, 0.8)", dash |-> "dash", width |-> "1.5"], name |-> "<U+7D27><U+5E03><U+6797><U+4E2D><U+8F68>", visible |-> FALSE],
    BB_Tight_Low |->
        [line |-> [color |-> "rgba(30, 144, 255, 0.8)", width |-> "1.5"], fill |-> "tonexty", fillcolor |-> "rgba(30, 144, 255, 0.1)", name |-> "<U+7D27><U+5E03><U+6797><U+4E0B><U+8F68>", visible |-> FALSE],
    BB_Wide_High |->
        [line |-> [color |-> "rgba(25, 25, 112, 0.8)", width |-> "1.5"], name |-> "<U+5BBD><U+5E03><U+6797><U+4E0A><U+8F68>", visible |-> FALSE],
    BB_Wide_Mid |->
        [line |-> [color |-> "rgba(25, 25, 112, 0.8)", dash |-> "dash", width |-> "1.5"], name |-> "<U+5BBD><U+5E03><U+6797><U+4E2D><U+8F68>", visible |-> FALSE],
    BB_Wide_Low |->
        [line |-> [color |-> "rgba(25, 25, 112, 0.8)", width |-> "1.5"], fill |-> "tonexty", fillcolor |-> "rgba(25, 25, 112, 0.1)", name |-> "<U+5BBD><U+5E03><U+6797><U+4E0B><U+8F68>", visible |-> FALSE],
    Ichimoku_SpanA |->
        [line |-> [color |-> "rgba(0, 128, 0, 0.7)", width |-> "2"], name |-> "<U+8F6C><U+6298><U+7EBF>A", visible |-> FALSE],
    Ichimoku_SpanB |->
        [line |-> [color |-> "rgba(220, 20, 60, 0.7)", width |-> "2"], fill |-> "tonexty", fillcolor |-> "rgba(200, 200, 200, 0.3)", name |-> "<U+8F6C><U+6298><U+7EBF>B", visible |-> FALSE],
    Ichimoku_Tenkan |->
        [line |-> [color |-> "rgba(0, 0, 255, 0.8)", width |-> "2"], name |-> "<U+8F6C><U+6362><U+7EBF>", visible |-> FALSE],
    Ichimoku_Kijun |->
        [line |-> [color |-> "rgba(255, 0, 0, 0.8)", width |-> "2"], name |-> "<U+57FA><U+51C6><U+7EBF>", visible |-> FALSE],
    Ichimoku_Chikou |->
        [line |-> [color |-> "rgba(0, 128, 0, 0.8)", width |-> "2"], name |-> "<U+8FDF><U+884C><U+7EBF>", visible |-> FALSE],
    SAR |->
        [mode |-> "markers", marker |-> [size |-> "4", color |-> "rgba(128, 0, 128, 0.8)"], name |-> "SAR", visible |-> FALSE],
    SMA5 |->
        [line |-> [color |-> "rgba(30, 144, 255, 0.9)", width |-> "2"], name |-> "SMA5", visible |-> FALSE],
    SMA10 |->
        [line |-> [color |-> "rgba(220, 20, 60, 0.9)", width |-> "2"], name |-> "SMA10", visible |-> FALSE],
    SMA20 |->
        [line |-> [color |-> "rgba(50, 205, 50, 1)", width |-> "2.5"], name |-> "SMA20", visible |-> TRUE],
    SMA50 |->
        [line |-> [color |-> "rgba(148, 0, 211, 1)", width |-> "2.5"], name |-> "SMA50", visible |-> TRUE],
    SMA100 |->
        [line |-> [color |-> "rgba(255, 140, 0, 0.9)", width |-> "2"], name |-> "SMA100", visible |-> FALSE],
    SMA200 |->
        [line |-> [color |-> "rgba(0, 0, 0, 1)", width |-> "3"], name |-> "SMA200", visible |-> TRUE],
    EMA5 |->
        [line |-> [color |-> "rgba(30, 144, 255, 0.9)", width |-> "2", dash |-> "dot"], name |-> "EMA5", visible |-> FALSE],
    EMA10 |->
        [line |-> [color |-> "rgba(220, 20, 60, 0.9)", width |-> "2", dash |-> "dot"], name |-> "EMA10", visible |-> FALSE],
    EMA20 |->
        [line |-> [color |-> "rgba(50, 205, 50, 1)", width |-> "2.5", dash |-> "dot"], name |-> "EMA20", visible |-> TRUE],
    EMA50 |->
        [line |-> [color |-> "rgba(148, 0, 211, 0.9)", width |-> "2", dash |-> "dot"], name |-> "EMA50", visible |-> FALSE],
    EMA100 |->
        [line |-> [color |-> "rgba(255, 140, 0, 0.9)", width |-> "2", dash |-> "dot"], name |-> "EMA100", visible |-> FALSE],
    EMA200 |->
        [line |-> [color |-> "rgba(0, 0, 0, 0.9)", width |-> "2.5", dash |-> "dot"], name |-> "EMA200", visible |-> FALSE],
    PDI |->
        [line |-> [color |-> "rgba(0, 128, 0, 0.9)", width |-> "2"], name |-> "PDI", visible |-> FALSE],
    NDI |->
        [line |-> [color |-> "rgba(220, 20, 60, 0.9)", width |-> "2"], name |-> "NDI", visible |-> FALSE],
    ADX |->
        [line |-> [color |-> "rgba(128, 128, 128, 1)", width |-> "2"], name |-> "ADX", visible |-> FALSE],
    RSI |->
        [line |-> [color |-> "rgba(34, 139, 34, 1)", width |-> "2.5"], name |-> "RSI", visible |-> TRUE],
    RSI7 |->
        [line |-> [color |-> "rgba(139, 0, 0, 0.9)", width |-> "2"], name |-> "RSI7", visible |-> FALSE],
    STOCH_K |->
        [line |-> [color |-> "rgba(65, 105, 225, 1)", width |-> "2"], name |-> "STOCH_K", visible |-> TRUE],
    STOCH_D |->
        [line |-> [color |-> "rgba(220, 20, 60, 1)", width |-> "2"], name |-> "STOCH_D", visible |-> TRUE],
    MACD |->
        [line |-> [color |-> "rgba(65, 105, 225, 1)", width |-> "2.5"], name |-> "MACD", visible |-> TRUE],
    MACD_Signal |->
        [line |-> [color |-> "rgba(220, 20, 60, 1)", width |-> "2.5"], name |-> "MACD<U+4FE1><U+53F7>", visible |-> TRUE],
    MACD_Histogram |->
        [type |-> "bar", marker |-> [color |-> <<>>], name |-> "MACD<U+67F1><U+72B6>", visible |-> TRUE],
    MACD_HF |->
        [line |-> [color |-> "rgba(70, 130, 180, 0.8)", width |-> "2"], name |-> "MACD_HF", visible |-> FALSE],
    MACD_HF_Signal |->
        [line |-> [color |-> "rgba(205, 92, 92, 0.8)", width |-> "2"], name |-> "MACD_HF<U+4FE1><U+53F7>", visible |-> FALSE],
    MACD_HF_Histogram |->
        [type |-> "bar", marker |-> [color |-> <<>>], name |-> "MACD_HF<U+67F1><U+72B6>", visible |-> FALSE],
    OBV |->
        [line |-> [color |-> "rgba(70, 130, 180, 1)", width |-> "2.5"], name |-> "OBV", visible |-> TRUE],
    OBV_MA |->
        [line |-> [color |-> "rgba(205, 92, 92, 1)", width |-> "2.5", dash |-> "dash"], name |-> "OBV<U+5747><U+7EBF>", visible |-> TRUE] ]

histogramTypes == <<"Histogram", "MACD_Histogram", "MACD_HF_Histogram">>

\* INDICATOR_CONFIG as the module is loaded.
LoadedIndicatorConfig ==
    [ mainPlot |-> <<"SMA", "EMA">>,
      subplots |-> subplots,
      styling |-> styling,
      histogramTypes |-> histogramTypes ]

NullAxis == "null"

---------------------------------------------------------------------------
\* The classifier.

\* indicators.some(ind => key === ind || key.startsWith(ind + '_')
\*                        || ind.endsWith(key))
MatchesSubplot(k, indicators) ==
    \E i \in 1..Len(indicators) :
        LET ind == indicators[i]
        IN  \/ k = ind
            \/ StartsWith(Chars[k], Chars[ind] \o <<"_">>)
            \/ EndsWith(Chars[ind], Chars[k])

\* ScanSubplots with the entries taken from the last to the first.
RECURSIVE ScanSubplotsBackwards(_, _, _)
ScanSubplotsBackwards(entries, i, k) ==
    LET j == Len(entries) + 1 - i
    IN  IF i > Len(entries) THEN NullAxis
        ELSE IF MatchesSubplot(k, entries[j].indicators) THEN entries[j].axis
        ELSE ScanSubplotsBackwards(entries, i + 1, k)

\* for (const [axis, indicators] of Object.entries(config.subplots)) from
\* entry i on: the axis of the first entry that matches, null when none does.
RECURSIVE ScanSubplots(_, _, _)
ScanSubplots(entries, i, k) ==
    IF i > Len(entries) THEN NullAxis
    ELSE IF MatchesSubplot(k, entries[i].indicators) THEN entries[i].axis
    ELSE ScanSubplots(entries, i + 1, k)

\* SubplotIn with the subplot lists consulted before the main-plot list.
SubplotInSubplotsFirst(config, k) ==
    LET axis == ScanSubplots(config.subplots, 1, k)
    IN  IF axis # NullAxis THEN axis
        ELSE IF \E i \in 1..Len(config.mainPlot) :
                    StartsWith(Chars[k], Chars[config.mainPlot[i]])
        THEN "y"
        ELSE NullAxis

\* getIndicatorSubplot, reading the configuration object it is given.
SubplotIn(config, k) ==
    IF \E i \in 1..Len(config.mainPlot) :
           StartsWith(Chars[k], Chars[config.mainPlot[i]])
    THEN "y"
    ELSE ScanSubplots(config.subplots, 1, k)

getIndicatorSubplot(k) == SubplotIn(INDICATOR_CONFIG, k)

---------------------------------------------------------------------------
\* Indicator styling.

PositiveColor == "rgba(0, 128, 0, 0.7)"
NegativeColor == "rgba(255, 0, 0, 0.7)"
TransparentColor == "rgba(0,0,0,0)"

\* The fields of config.styling[k] as a spread copies them.  marker is an
\* object: the copy holds a reference to the configuration's own marker,
\* written [ref |-> k], not a copy of it.
StylingFields(config, k) ==
    LET entry == config.styling[k]
    IN  [f \in DOMAIN entry |-> IF f = "marker" THEN [ref |-> k] ELSE entry[f]]

InDefaultVisibleGroup(k) ==
    \/ ArrayIncludes(DEFAULT_VISIBLE_INDICATORS.mainPlot, k)
    \/ ArrayIncludes(DEFAULT_VISIBLE_INDICATORS.oscillators, k)
    \/ ArrayIncludes(DEFAULT_VISIBLE_INDICATORS.macd, k)
    \/ ArrayIncludes(DEFAULT_VISIBLE_INDICATORS.bollinger, k)
    \/ ArrayIncludes(DEFAULT_VISIBLE_INDICATORS.volume, k)

\* values.map(v => v >= 0 ? green : red)
HistogramSignColor(v) ==
    IF GreaterOrEqualZero(v) THEN PositiveColor ELSE NegativeColor
HistogramSignColors(values) ==
    [i \in 1..Len(values) |-> HistogramSignColor(values[i])]

\* ApplyConfiguredStyle with the spread the other way round: the generic
\* style wins over the entry.
ApplyGenericStyleLast(config, k, style) ==
    IF k \in DOMAIN config.styling
    THEN Spread(StylingFields(config, k), style)
    ELSE style

\* if (config.styling[k]) style = { ...style, ...config.styling[k] }
ApplyConfiguredStyle(config, k, style) ==
    IF k \in DOMAIN config.styling
    THEN Spread(style, StylingFields(config, k))
    ELSE style

\* getIndicatorStyle, reading the configuration object it is given.
StyleIn(config, k, values) ==
    LET default ==
            [ type |-> "scatter",
              mode |-> "lines",
              line |-> [width |-> "1"],
              visible |-> ~ArrayIncludes(DEFAULT_VISIBLE_INDICATORS.hidden, k) ]
        grouped ==
            IF InDefaultVisibleGroup(k)
            THEN [default EXCEPT !.visible = TRUE]
            ELSE default
        isHistogram ==
            \E i \in 1..Len(config.histogramTypes) :
                Includes(Chars[k], Chars[config.histogramTypes[i]])
        typed ==
            IF isHistogram
            THEN Spread([grouped EXCEPT !.type = "bar", !.mode = "undefined"],
                        [marker |-> [color |-> HistogramSignColors(values)]])
            ELSE grouped
    IN  ApplyConfiguredStyle(config, k, typed)

getIndicatorStyle(k, values) == StyleIn(INDICATOR_CONFIG, k, values)

---------------------------------------------------------------------------
\* Rows and columns.

\* d[k]: undefined when the row has no such key.
Get(d, k) == IF k \in DOMAIN d THEN d[k] ELSE Undefined

\* data.map(d => d[k])
Column(data, k) == [i \in 1..Len(data) |-> Get(data[i], k)]

\* SomeNumeric with a test for a present value in place of isNumeric.
SomePresent(values) == \E i \in 1..Len(values) : values[i] # Undefined

\* values.some(isNumeric)
SomeNumeric(values) == \E i \in 1..Len(values) : isNumeric(values[i])

\* CleanValue with 0 for null.
CleanValueZero(v) == IF isNumeric(v) THEN v ELSE Num(0)

\* values.map(v => isNumeric(v) ? v : null)
CleanValue(v) == IF isNumeric(v) THEN v ELSE Null
CleanValues(values) == [i \in 1..Len(values) |-> CleanValue(values[i])]

\* style.name || k
NameOr(style, k) ==
    IF "name" \in DOMAIN style /\ style.name # "" THEN style.name ELSE k

\* The object pushed by the indicator trace builders.  Its field key is the
\* column the trace was built from; the JavaScript object has no such field.
IndicatorTrace(data, k, yaxis, legendgroup, style) ==
    Spread([ key |-> k,
             x |-> Column(data, "Date"),
             y |-> CleanValues(Column(data, k)),
             name |-> NameOr(style, k),
             yaxis |-> yaxis,
             showlegend |-> TRUE,
             legendgroup |-> legendgroup ],
           style)

\* keys.forEach(k => { if (!values.some(isNumeric)) return; ... push }) from
\* key i on, for the builders that leave the style as getIndicatorStyle
\* returned it.
RECURSIVE PushEach(_, _, _, _, _, _)
PushEach(config, data, keys, i, yaxis, legendgroup) ==
    IF i > Len(keys) THEN <<>>
    ELSE LET k == keys[i]
             values == Column(data, k)
             pushed ==
                 IF SomeNumeric(values)
                 THEN <<IndicatorTrace(data, k, yaxis, legendgroup,
                                       StyleIn(config, k, CleanValues(values)))>>
                 ELSE <<>>
         IN  pushed \o PushEach(config, data, keys, i + 1, yaxis, legendgroup)

---------------------------------------------------------------------------
\* Trace builders.  Each takes the configuration object it reads.

\* The default whatever the symbol.
OrElseDefault(sym, other) == other

\* symbol || other
OrElse(sym, other) == IF sym # "" THEN sym ELSE other

\* hasOHLC with || for &&.
hasAnyOHLC(opens, highs, lows, closes) ==
    \/ SomeNumeric(opens)
    \/ SomeNumeric(highs)
    \/ SomeNumeric(lows)
    \/ SomeNumeric(closes)

hasOHLC(opens, highs, lows, closes) ==
    /\ SomeNumeric(opens)
    /\ SomeNumeric(highs)
    /\ SomeNumeric(lows)
    /\ SomeNumeric(closes)

createPriceTrace(data, sym) ==
    IF Len(data) = 0 THEN <<>>
    ELSE LET dates == Column(data, "Date")
             opens == Column(data, "Open")
             highs == Column(data, "High")
             lows == Column(data, "Low")
             closes == Column(data, "Close")
         IN  IF hasOHLC(opens, highs, lows, closes)
             THEN << [ x |-> dates,
                       open |-> opens,
                       high |-> highs,
                       low |-> lows,
                       close |-> closes,
                       type |-> "candlestick",
                       name |-> OrElse(sym, "<U+4EF7><U+683C>"),
                       yaxis |-> "y",
                       increasing |-> [line |-> [color |-> "#26a69a", width |-> "1"]],
                       decreasing |-> [line |-> [color |-> "#ef5350", width |-> "1"]],
                       showlegend |-> TRUE,
                       legendgroup |-> "price",
                       visible |-> TRUE ] >>
             ELSE IF SomeNumeric(closes)
             THEN << [ x |-> dates,
                       y |-> CleanValues(closes),
                       type |-> "scatter",
                       mode |-> "lines",
                       name |-> OrElse(sym, "") \o " <U+6536><U+76D8><U+4EF7>",
                       yaxis |-> "y",
                       line |-> [color |-> "rgba(0,0,0,0.7)", width |-> "2"],
                       showlegend |-> TRUE,
                       legendgroup |-> "price",
                       visible |-> TRUE ] >>
             ELSE <<>>

\* maIndicators with SMA20 left out.
maIndicatorsWithoutSMA20 ==
    << "SMA5", "SMA10", "SMA50", "SMA100", "SMA200",
       "EMA5", "EMA10", "EMA20", "EMA50", "EMA100", "EMA200" >>

maIndicators ==
    << "SMA5", "SMA10", "SMA20", "SMA50", "SMA100", "SMA200",
       "EMA5", "EMA10", "EMA20", "EMA50", "EMA100", "EMA200" >>

createMATraces(config, data) ==
    IF Len(data) = 0 THEN <<>>
    ELSE PushEach(config, data, maIndicators, 1, "y", "ma")

oscillatorIndicators ==
    <<"RSI", "RSI7", "STOCH_K", "STOCH_D", "ADX", "PDI", "NDI">>

createOscillatorTraces(config, data) ==
    IF Len(data) = 0 THEN <<>>
    ELSE PushEach(config, data, oscillatorIndicators, 1, "y2", "oscillators")

macdIndicators ==
    << "MACD", "MACD_Signal", "MACD_Histogram",
       "MACD_HF", "MACD_HF_Signal", "MACD_HF_Histogram" >>

\* HistogramColor without the isNumeric test: null compares as 0.
HistogramColorBySignOnly(v) ==
    IF GreaterOrEqualZero(v) THEN PositiveColor ELSE NegativeColor

\* cleanValues.map(v => isNumeric(v) ? (v >= 0 ? green : red) : transparent)
HistogramColor(v) ==
    IF isNumeric(v)
    THEN (IF GreaterOrEqualZero(v) THEN PositiveColor ELSE NegativeColor)
    ELSE TransparentColor

\* SetHistogramColors filling marker.color only while it is still empty.
SetHistogramColorsOnce(config, k, style, cleanValues) ==
    IF ~Includes(Chars[k], Chars["Histogram"])
    THEN [style |-> style, config |-> config]
    ELSE LET colors ==
                 [i \in 1..Len(cleanValues) |-> HistogramColor(cleanValues[i])]
             marked ==
                 IF "marker" \in DOMAIN style
                 THEN style
                 ELSE Spread(style, [marker |-> [color |-> <<>>]])
         IN  IF "ref" \in DOMAIN marked.marker
             THEN [ style |-> marked,
                    config |->
                        IF config.styling[marked.marker.ref].marker.color = <<>>
                        THEN [config EXCEPT
                            !.styling[marked.marker.ref].marker.color = colors]
                        ELSE config ]
             ELSE [ style |-> [marked EXCEPT !.marker.color = colors],
                    config |-> config ]

\* if (key.includes('Histogram')) { ...; if (!style.marker) style.marker = {};
\* style.marker.color = colors }.  The assignment writes through the
\* reference when style.marker is the configuration's marker object.
\* Gives the style and the configuration after the statement.
SetHistogramColors(config, k, style, cleanValues) ==
    IF ~Includes(Chars[k], Chars["Histogram"])
    THEN [style |-> style, config |-> config]
    ELSE LET colors ==
                 [i \in 1..Len(cleanValues) |-> HistogramColor(cleanValues[i])]
             marked ==
                 IF "marker" \in DOMAIN style
                 THEN style
                 ELSE Spread(style, [marker |-> [color |-> <<>>]])
         IN  IF "ref" \in DOMAIN marked.marker
             THEN [ style |-> marked,
                    config |-> [config EXCEPT
                        !.styling[marked.marker.ref].marker.color = colors] ]
             ELSE [ style |-> [marked EXCEPT !.marker.color = colors],
                    config |-> config ]

\* indicators.forEach(...) of createMACDTraces from key i on; gives the traces
\* pushed and the configuration object afterwards.
RECURSIVE PushMACD(_, _, _, _)
PushMACD(config, data, i, traces) ==
    IF i > Len(macdIndicators) THEN [traces |-> traces, config |-> config]
    ELSE LET k == macdIndicators[i]
             values == Column(data, k)
         IN  IF ~SomeNumeric(values)
             THEN PushMACD(config, data, i + 1, traces)
             ELSE LET cleanValues == CleanValues(values)
                      set == SetHistogramColors(config, k,
                                 StyleIn(config, k, cleanValues), cleanValues)
                  IN  PushMACD(set.config, data, i + 1,
                          Append(traces,
                              IndicatorTrace(data, k, "y3", "macd", set.style)))

createMACDTraces(config, data) ==
    IF Len(data) = 0 THEN [traces |-> <<>>, config |-> config]
    ELSE PushMACD(config, data, 1, <<>>)

bbGroups ==
    << <<"BB_High", "BB_Mid", "BB_Low">>,
       <<"BB_Tight_High", "BB_Tight_Mid", "BB_Tight_Low">>,
       <<"BB_Wide_High", "BB_Wide_Mid", "BB_Wide_Low">> >>

\* group.some(key => data.some(d => isNumeric(d[key])))
GroupHasData(data, group) ==
    \E i \in 1..Len(group) : SomeNumeric(Column(data, group[i]))

\* orderedGroup with the group in the order it is listed: High, Mid, Low.
listedGroup(group) == <<group[1], group[2], group[3]>>

\* const orderedGroup = [group[2], group[1], group[0]]  (0-based in the code)
orderedGroup(group) == <<group[3], group[2], group[1]>>

\* bbGroups.forEach(...) from group g on.
RECURSIVE PushBands(_, _, _)
PushBands(config, data, g) ==
    IF g > Len(bbGroups) THEN <<>>
    ELSE (IF GroupHasData(data, bbGroups[g])
          THEN PushEach(config, data, orderedGroup(bbGroups[g]), 1,
                        "y4", "volatility")
          ELSE <<>>)
         \o PushBands(config, data, g + 1)

\* ichimokuOrder with the lines listed before the cloud boundaries.
ichimokuLinesFirst ==
    << "Ichimoku_Tenkan", "Ichimoku_Kijun", "Ichimoku_Chikou",
       "Ichimoku_SpanB", "Ichimoku_SpanA" >>

ichimokuOrder ==
    << "Ichimoku_SpanB", "Ichimoku_SpanA",
       "Ichimoku_Tenkan", "Ichimoku_Kijun", "Ichimoku_Chikou" >>

createVolatilityTraces(config, data) ==
    IF Len(data) = 0 THEN <<>>
    ELSE PushBands(config, data, 1)
         \o (IF GroupHasData(data, ichimokuOrder)
             THEN PushEach(config, data, ichimokuOrder, 1, "y4", "ichimoku")
             ELSE <<>>)
         \o PushEach(config, data, <<"SAR">>, 1, "y4", "volatility")

volumeIndicators == <<"OBV", "OBV_MA">>

\* createVolumeTraces placing its traces on the overlay pane.
createVolumeTracesOnOverlay(config, data) ==
    IF Len(data) = 0 THEN <<>>
    ELSE PushEach(config, data, volumeIndicators, 1, "y4", "volume")

createVolumeTraces(config, data) ==
    IF Len(data) = 0 THEN <<>>
    ELSE PushEach(config, data, volumeIndicators, 1, "y5", "volume")

NoParts ==
    [ price |-> <<>>, ma |-> <<>>, oscillator |-> <<>>, macd |-> <<>>,
      volatility |-> <<>>, volume |-> <<>> ]

\* preparePlotData over the rows and configuration given: the builders run in
\* the order price, MA, oscillator, MACD, volatility, volume, those after
\* createMACDTraces reading the configuration as it left it.  Gives each
\* builder's return value, their concatenation, and the configuration object
\* afterwards.
PlotDataIn(config, data, sym) ==
    IF Len(data) = 0
    THEN [parts |-> NoParts, allTraces |-> <<>>, config |-> config]
    ELSE LET priceTraces == createPriceTrace(data, sym)
             maTraces == createMATraces(config, data)
             oscillatorTraces == createOscillatorTraces(config, data)
             macd == createMACDTraces(config, data)
             volatilityTraces == createVolatilityTraces(macd.config, data)
             volumeTraces == createVolumeTraces(macd.config, data)
         IN  [ parts |->
                   [ price |-> priceTraces,
                     ma |-> maTraces,
                     oscillator |-> oscillatorTraces,
                     macd |-> macd.traces,
                     volatility |-> volatilityTraces,
                     volume |-> volumeTraces ],
               allTraces |->
                   priceTraces \o maTraces \o oscillatorTraces \o macd.traces
                   \o volatilityTraces \o volumeTraces,
               config |-> macd.config ]

---------------------------------------------------------------------------
\* Responses of the chart-data API used as inputs: rows in ascending date
\* order in which a chosen set of columns carries one series of values and
\* every other column holds one non-finite value in all rows (undefined: the
\* rows have no such key).

PriceFields == {"Open", "High", "Low", "Close"}

BuilderKeys ==
    Range(maIndicators) \cup Range(oscillatorIndicators)
    \cup Range(macdIndicators) \cup UNION {Range(bbGroups[g]) : g \in 1..3}
    \cup Range(ichimokuOrder) \cup {"SAR"} \cup Range(volumeIndicators)

\* Columns no trace builder names.
OtherColumns ==
    {"Volume", "ATR", "ATR_Percent", "SMA9", "RSI_14", "Keltner_High", "VWAP"}

AllColumns == PriceFields \cup BuilderKeys \cup OtherColumns

Bollinger == Range(bbGroups[1])

\* The columns of the example scenario of the specification.
ScenarioColumns ==
    PriceFields \cup Bollinger
    \cup {"SMA20", "RSI", "MACD", "MACD_Signal", "MACD_Histogram"}

ColumnSets ==
    {{}} \cup {{c} : c \in AllColumns}
    \cup {PriceFields \ {c} : c \in PriceFields}
    \cup {PriceFields, {"Open", "Close"}}
    \cup {Range(bbGroups[g]) : g \in 1..3}
    \cup UNION {{Range(bbGroups[g]) \ {c} : c \in Range(bbGroups[g])} : g \in 1..3}
    \cup SUBSET Range(ichimokuOrder)
    \cup { {"MACD", "MACD_Signal", "MACD_Histogram"}, Range(macdIndicators) }
    \cup { ScenarioColumns,
           Bollinger \cup {"Close"},
           Bollinger \cup {"RSI"},
           Bollinger \cup {"MACD_Histogram"},
           Bollinger \cup Range(bbGroups[2]),
           UNION {Range(bbGroups[g]) : g \in 1..3},
           Bollinger \cup {"ATR", "OBV"},
           AllColumns }

DateOf(i) == [tag |-> "date", day |-> i]

\* Row i of a response: undefined cells are absent keys.
Row(i, live, series, rest) ==
    LET liveKeys == IF series[i] = Undefined THEN {} ELSE live
        restKeys == IF rest = Undefined THEN {} ELSE AllColumns \ live
    IN  [f \in {"Date"} \cup liveKeys \cup restKeys |->
            IF f = "Date" THEN DateOf(i)
            ELSE IF f \in liveKeys THEN series[i]
            ELSE rest]

Rows(n, live, series, rest) == [i \in 1..n |-> Row(i, live, series, rest)]

\* Series with a finite value in every row, or in one row only and the gap
\* value in the others.
SparseSeries(m, gap) ==
    {[i \in 1..m |-> Num(i)]}
    \cup {[i \in 1..m |-> IF i = j THEN Num(i) ELSE gap] : j \in 1..m}

\* Every set of columns, under the sparse series.
IsColumnResponse(data) ==
    \E live \in ColumnSets, rest \in NonFiniteValues, m \in 1..MaxRows :
        \E series \in SparseSeries(m, rest) :
            data = Rows(m, live, series, rest)

\* The column sets given every series of values.
ValueColumnSets ==
    { {"Close"}, PriceFields, {"RSI", "SAR"},
      {"MACD_Histogram", "MACD_HF_Histogram"}, AllColumns }

IsValueResponse(data) ==
    \E live \in ValueColumnSets, rest \in {Undefined, Null}, m \in 0..MaxRows :
        \E series \in [1..m -> Values] :
            data = Rows(m, live, series, rest)

IsResponse(data) == IsColumnResponse(data) \/ IsValueResponse(data)

---------------------------------------------------------------------------
\* Configuration objects used as inputs of the classifier: the loaded one,
\* and the loaded one with one more member name put first in one pane's list.

ExtraMembers == {"SMA20", "EMA", "RSI", "MACD_Histogram", "VWAP"}

WithMember(config, p, m) ==
    [config EXCEPT !.subplots[p].indicators = <<m>> \o @]

ClassifierConfigs ==
    {LoadedIndicatorConfig}
    \cup { WithMember(LoadedIndicatorConfig, p, m) :
               p \in 1..Len(subplots), m \in ExtraMembers }

---------------------------------------------------------------------------
\* Operations.

NoStyle == [type |-> "pending"]

NoLayout == [title |-> "pending"]

\* The component state the useState calls of ChartAnalysis set up, nothing
\* requested or rendered yet.
Constructed ==
    /\ loading = FALSE
    /\ parametersLoading = FALSE
    /\ parameterSets = <<>>
    /\ selectedParameterSet = "default"
    /\ period = "1y"
    /\ error = Null
    /\ requests = {}
    /\ issued = 0
    /\ committed = 0
    /\ view = "none"
    /\ plotLayout = NoLayout
    /\ last = "construct"

\* A call of getIndicatorSubplot(key).
Classify ==
    /\ called = <<>>
    /\ subplot' = getIndicatorSubplot(key)
    /\ called' = Append(called, "getIndicatorSubplot")
    /\ UNCHANGED <<INDICATOR_CONFIG, symbol, chartData, plotData, parts,
                   priceTrace, key, styleOfKey>>
    /\ UNCHANGED componentVars
    /\ UNCHANGED reportVars

\* A call of getIndicatorStyle(key, cleanValues) as the builders make it,
\* with the cleaned values of the column key of chartData.
GetIndicatorStyle ==
    /\ called = <<>>
    /\ styleOfKey' = getIndicatorStyle(key, CleanValues(Column(chartData, key)))
    /\ called' = Append(called, "getIndicatorStyle")
    /\ UNCHANGED <<INDICATOR_CONFIG, symbol, chartData, plotData, parts,
                   priceTrace, key, subplot>>
    /\ UNCHANGED componentVars
    /\ UNCHANGED reportVars

\* A call of createPriceTrace(chartData, symbol).
CreatePriceTrace ==
    /\ called = <<>>
    /\ priceTrace' = createPriceTrace(chartData, symbol)
    /\ called' = Append(called, "createPriceTrace")
    /\ UNCHANGED <<INDICATOR_CONFIG, symbol, chartData, plotData, parts,
                   key, subplot, styleOfKey>>
    /\ UNCHANGED componentVars
    /\ UNCHANGED reportVars

\* A call of preparePlotData().
PreparePlotData ==
    /\ called = <<>>
    /\ LET r == PlotDataIn(INDICATOR_CONFIG, chartData, symbol)
       IN  /\ plotData' = r.allTraces
           /\ parts' = r.parts
           /\ INDICATOR_CONFIG' = r.config
    /\ called' = Append(called, "preparePlotData")
    /\ UNCHANGED <<symbol, chartData, priceTrace, key, subplot, styleOfKey>>
    /\ UNCHANGED componentVars
    /\ UNCHANGED reportVars

---------------------------------------------------------------------------
\* The ChartAnalysis component.

\* const layout = {...}: the fields of the layout object that place and
\* scale the panes.  Domain bounds are in hundredths of the chart height (68
\* for 0.68); the title is the three parts of its template string.
layout(sym, parameterSet, per) ==
    [ title |-> <<sym, parameterSet, per>>,
      xaxis |-> [domain |-> <<0, 100>>, type |-> "date"],
      yaxis |-> [domain |-> <<68, 100>>, title |-> "Price",
                 autorange |-> TRUE],
      yaxis2 |-> [domain |-> <<48, 66>>, title |-> "Oscillators",
                  autorange |-> TRUE, range |-> <<0, 100>>],
      yaxis3 |-> [domain |-> <<28, 46>>, title |-> "MACD",
                  autorange |-> TRUE],
      yaxis4 |-> [domain |-> <<8, 26>>, title |-> "Volatility",
                  autorange |-> TRUE],
      yaxis5 |-> [domain |-> <<0, 6>>, title |-> "Volume",
                  autorange |-> TRUE],
      grid |-> [rows |-> 5, columns |-> 1] ]

\* layout.shapes = [...]: the reference lines of the oscillator and MACD
\* panes.
shapes ==
    << [yref |-> "y2", y0 |-> 70, y1 |-> 70, dash |-> "dash"],
       [yref |-> "y2", y0 |-> 30, y1 |-> 30, dash |-> "dash"],
       [yref |-> "y2", y0 |-> 50, y1 |-> 50, dash |-> "dot"],
       [yref |-> "y3", y0 |-> 0, y1 |-> 0, dash |-> "dot"] >>

\* preparePlotLayout with the oscillator pane reaching into the price pane.
preparePlotLayoutOverlapping(sym, parameterSet, per) ==
    Spread([layout(sym, parameterSet, per) EXCEPT !.yaxis2.domain = <<48, 70>>],
           [shapes |-> shapes])

\* preparePlotLayout with the volume axis left out.
preparePlotLayoutWithoutVolume(sym, parameterSet, per) ==
    LET full == layout(sym, parameterSet, per)
    IN  Spread([f \in DOMAIN full \ {"yaxis5"} |-> full[f]],
               [shapes |-> shapes])

preparePlotLayout(sym, parameterSet, per) ==
    Spread(layout(sym, parameterSet, per), [shapes |-> shapes])

\* A message string as the component keeps it in error.
Message(text) == [tag |-> "string", text |-> text]

\* if (error): null and the empty string are falsy.
Truthy(message) ==
    /\ message.tag # "null"
    /\ ~(message.tag = "string" /\ message.text = "")

\* renderContent with the test of chartData made before the test of error.
renderContentDataFirst(ld, err, data) ==
    IF ld THEN "spin"
    ELSE IF Len(data) # 0 THEN "plot"
    ELSE IF Truthy(err) THEN "alert"
    ELSE "empty"

\* renderContent: which element it returns: the spinner, the error alert
\* with its retry button, the empty placeholder, or the Plot.
renderContent(ld, err, data) ==
    IF ld THEN "spin"
    ELSE IF Truthy(err) THEN "alert"
    ELSE IF Len(data) = 0 THEN "empty"
    ELSE "plot"

\* The render that follows a state update: renderContent over the new state,
\* calling preparePlotData and preparePlotLayout when it returns the Plot.
\* const plotData = preparePlotData(); const plotLayout = preparePlotLayout():
\* the figure handed to the Plot element, and the configuration object as
\* preparePlotData left it.
Plot(prepared, layoutNow) ==
    /\ plotData' = prepared.allTraces
    /\ parts' = prepared.parts
    /\ INDICATOR_CONFIG' = prepared.config
    /\ plotLayout' = layoutNow

Render(ld, err, data, sym, parameterSet, per) ==
    /\ view' = renderContent(ld, err, data)
    /\ IF view' = "plot"
       THEN Plot(PlotDataIn(INDICATOR_CONFIG, data, sym),
                 preparePlotLayout(sym, parameterSet, per))
       ELSE UNCHANGED <<plotData, parts, INDICATOR_CONFIG, plotLayout>>

\* fetchChartData up to its await: loading on, error and chartData cleared,
\* one more getChartData call awaiting its outcome.
fetchChartData(sym, parameterSet, per) ==
    /\ issued < MaxRequests
    /\ loading' = TRUE
    /\ error' = Null
    /\ chartData' = <<>>
    /\ committed' = 0
    /\ issued' = issued + 1
    /\ requests' = requests \cup {issued + 1}
    /\ Render(TRUE, Null, <<>>, sym, parameterSet, per)

Mounted == last # "construct"

\* The two effects of the first render: fetchParameters and fetchChartData.
Mount ==
    /\ ~Mounted
    /\ parametersLoading' = TRUE
    /\ fetchChartData(symbol, selectedParameterSet, period)
    /\ last' = "request"
    /\ UNCHANGED reportVars
    /\ UNCHANGED <<symbol, selectedParameterSet, period, parameterSets,
                   priceTrace, called, key, subplot, styleOfKey>>

Periods == {"1y", "6mo"}
Symbols == {"AAPL", "GOLD"}

\* The Select of parameter sets changes: setSelectedParameterSet, and the
\* effect on the new fetchChartData.
handleParameterChange(value) ==
    /\ Mounted
    /\ value # selectedParameterSet
    /\ selectedParameterSet' = value
    /\ fetchChartData(symbol, value, period)
    /\ last' = "request"
    /\ UNCHANGED reportVars
    /\ UNCHANGED <<symbol, period, parameterSets, parametersLoading,
                   priceTrace, called, key, subplot, styleOfKey>>

\* The Select of periods changes: setPeriod, and the effect.
handlePeriodChange(value) ==
    /\ Mounted
    /\ value # period
    /\ period' = value
    /\ fetchChartData(symbol, selectedParameterSet, value)
    /\ last' = "request"
    /\ UNCHANGED reportVars
    /\ UNCHANGED <<symbol, selectedParameterSet, parameterSets,
                   parametersLoading, priceTrace, called, key, subplot,
                   styleOfKey>>

\* The route parameter changes: useParams gives another symbol, and the
\* effect runs.
ChangeSymbol(value) ==
    /\ Mounted
    /\ value # symbol
    /\ symbol' = value
    /\ fetchChartData(value, selectedParameterSet, period)
    /\ last' = "request"
    /\ UNCHANGED reportVars
    /\ UNCHANGED <<selectedParameterSet, period, parameterSets,
                   parametersLoading, priceTrace, called, key, subplot,
                   styleOfKey>>

\* The refresh button, which antd disables while loading.
Refresh ==
    /\ Mounted
    /\ ~loading
    /\ fetchChartData(symbol, selectedParameterSet, period)
    /\ last' = "request"
    /\ UNCHANGED reportVars
    /\ UNCHANGED <<symbol, selectedParameterSet, period, parameterSets,
                   parametersLoading, priceTrace, called, key, subplot,
                   styleOfKey>>

\* The retry button of the error alert.
Retry ==
    /\ Mounted
    /\ view = "alert"
    /\ fetchChartData(symbol, selectedParameterSet, period)
    /\ last' = "request"
    /\ UNCHANGED reportVars
    /\ UNCHANGED <<symbol, selectedParameterSet, period, parameterSets,
                   parametersLoading, priceTrace, called, key, subplot,
                   styleOfKey>>

\* Rows a response can carry: none; rows without a usable value; rows with
\* Close and a positive or a negative MACD histogram; rows with every column.
Datasets ==
    { <<>>,
      Rows(1, {}, <<Num(1)>>, Null),
      Rows(1, {"Close", "MACD_Histogram"}, <<Num(1)>>, Undefined),
      Rows(1, {"Close", "MACD_Histogram"}, <<Num(0 - 1)>>, Undefined),
      Rows(1, AllColumns, <<Num(1)>>, Undefined),
      Rows(1, ScenarioColumns, <<Num(1)>>, Undefined),
      Rows(1, {"Close"}, <<Num(1)>>, Undefined) }

\* What a getChartData call resolves with: a body with the rows under
\* 'data', or nothing.
Bodies == {Null} \cup {[data |-> d] : d \in Datasets}

\* fetchChartData after its await, the call having resolved: the rows are
\* committed and loading goes off.
Resolve(r, body) ==
    /\ r \in requests
    /\ requests' = requests \ {r}
    /\ chartData' = IF body # Null /\ "data" \in DOMAIN body
                    THEN body.data ELSE <<>>
    /\ committed' = r
    /\ loading' = FALSE
    /\ Render(FALSE, error, chartData', symbol, selectedParameterSet, period)
    /\ last' = "resolve"
    /\ UNCHANGED reportVars
    /\ UNCHANGED <<error, symbol, selectedParameterSet, period, parameterSets,
                   parametersLoading, issued, priceTrace, called, key,
                   subplot, styleOfKey>>

\* fetchChartData after its await, the call having failed: the message is
\* set and loading goes off.
Reject(r) ==
    /\ r \in requests
    /\ requests' = requests \ {r}
    /\ error' = Message("error_fetching_chart_data")
    /\ loading' = FALSE
    /\ Render(FALSE, error', chartData, symbol, selectedParameterSet, period)
    /\ last' = "reject"
    /\ UNCHANGED reportVars
    /\ UNCHANGED <<chartData, committed, symbol, selectedParameterSet, period,
                   parameterSets, parametersLoading, issued, priceTrace,
                   called, key, subplot, styleOfKey>>

\* fetchParameters after its await, the call having resolved.
ParametersResolve ==
    /\ parametersLoading
    /\ parametersLoading' = FALSE
    /\ parameterSets' = <<"default", "ichimoku">>
    /\ Render(loading, error, chartData, symbol, selectedParameterSet, period)
    /\ last' = "other"
    /\ UNCHANGED reportVars
    /\ UNCHANGED <<loading, error, chartData, committed, symbol,
                   selectedParameterSet, period, requests, issued, priceTrace,
                   called, key, subplot, styleOfKey>>

\* fetchParameters after its await, the call having failed.
ParametersReject ==
    /\ parametersLoading
    /\ parametersLoading' = FALSE
    /\ error' = Message("error_fetching_parameters")
    /\ Render(loading, error', chartData, symbol, selectedParameterSet, period)
    /\ last' = "other"
    /\ UNCHANGED reportVars
    /\ UNCHANGED <<loading, chartData, committed, symbol, selectedParameterSet,
                   period, parameterSets, requests, issued, priceTrace,
                   called, key, subplot, styleOfKey>>

\* A render with no state update of the component (its parent rendered).
Rerender ==
    /\ Mounted
    /\ Render(loading, error, chartData, symbol, selectedParameterSet, period)
    /\ last' = "other"
    /\ UNCHANGED reportVars
    /\ UNCHANGED <<loading, error, chartData, committed, symbol,
                   selectedParameterSet, period, parameterSets,
                   parametersLoading, requests, issued, priceTrace, called,
                   key, subplot, styleOfKey>>

----------------------------------------------------------------------------
\* The report page: components/DetailedReport.js, the version guarded by
\* refs.

\* Largest number of changes and clicks the user makes on a report page.
MaxInteractions == 3

\* The strings the page takes apart, as character sequences.
RouteChars ==
    ("" :> <<>>)
    @@ ("AAPL" :> <<"A", "A", "P", "L">>)
    @@ ("GOLD" :> <<"G", "O", "L", "D">>)
    @@ ("GOLD_summary.html" :> <<"G", "O", "L", "D", "_", "s", "u", "m", "m", "a", "r", "y", ".", "h", "t", "m", "l">>)
    @@ ("GOLD_interactive_report_20250503_default.html" :> <<"G", "O", "L", "D", "_", "i", "n", "t", "e", "r", "a", "c", "t", "i", "v", "e", "_", "r", "e", "p", "o", "r", "t", "_", "2", "0", "2", "5", "0", "5", "0", "3", "_", "d", "e", "f", "a", "u", "l", "t", ".", "h", "t", "m", "l">>)
    @@ ("GOLD_interactive_report_20250503_default" :> <<"G", "O", "L", "D", "_", "i", "n", "t", "e", "r", "a", "c", "t", "i", "v", "e", "_", "r", "e", "p", "o", "r", "t", "_", "2", "0", "2", "5", "0", "5", "0", "3", "_", "d", "e", "f", "a", "u", "l", "t">>)

RouteSymbols == DOMAIN RouteChars

\* chars.split('_')[0]
FirstPart(chars) ==
    IF \E i \in 1..Len(chars) : chars[i] = "_"
    THEN LET first == CHOOSE i \in 1..Len(chars) :
                          /\ chars[i] = "_"
                          /\ \A j \in 1..(i - 1) : chars[j] # "_"
         IN  SubSeq(chars, 1, first - 1)
    ELSE chars

StringOf(chars) == CHOOSE s \in DOMAIN RouteChars : RouteChars[s] = chars

\* s.split('_')[0]
baseSymbolOf(s) == StringOf(FirstPart(RouteChars[s]))

\* s.endsWith('.html')
IsHtml(s) == EndsWith(RouteChars[s], <<".", "h", "t", "m", "l">>)

\* s.includes('_interactive_report_')
IsReportFile(s) == Includes(RouteChars[s], <<"_", "i", "n", "t", "e", "r", "a", "c", "t", "i", "v", "e", "_", "r", "e", "p", "o", "r", "t", "_">>)

\* s.includes('_')
HasUnderscore(s) == Includes(RouteChars[s], <<"_">>)

\* `/reports/${symbol}`
ReportPath(s) == [path |-> s]

\* The report_url the server answers a generate_report request with: the
\* report of that symbol, parameter set, period and language.
ReportUrlFor(request) == [report |-> request]

\* The HTML set by setReportContent for the file fetched from url.
Content(url) == [tag |-> "string", text |-> "report-content", of |-> url]

EmptyString == Message("")

Languages == {"en", "zh"}

Endpoints ==
    {"getAssets", "getParameters", "generateCharts", "generate_report",
     "report_file"}

Bump(endpoint) == [sent EXCEPT ![endpoint] = @ + 1]

\* An async function of the page suspended at an await.
Call(id, fn, at, request, url, awaited) ==
    [id |-> id, fn |-> fn, at |-> at, request |-> request, url |-> url,
     awaited |-> awaited]

\* The values of the first render, which the closures of the mount effects
\* keep.
InitialParameterSet == "default"
InitialPeriod == "1y"
InitialLanguage == "en"

\* The state before a report page or the dashboard is mounted.
NoReport ==
    /\ selectedSymbol = ""
    /\ language = InitialLanguage
    /\ reportUrl = Null
    /\ reportContent = EmptyString
    /\ assetCategories = {}
    /\ reportAlreadyLoaded = FALSE
    /\ initialDataLoaded = FALSE
    /\ generatingReport = FALSE
    /\ reportState = "idle"
    /\ debounced = <<>>
    /\ calls = {}
    /\ sent = [e \in Endpoints |-> 0]
    /\ recentReports = <<>>
    /\ settled = Null
    /\ interactions = 0

\* The variables of the chart page, which the report pages leave alone.
chartVars ==
    <<INDICATOR_CONFIG, chartData, plotData, parts, priceTrace, called, key,
      subplot, styleOfKey, parametersLoading, requests, committed, view,
      plotLayout>>

\* renderContent of the report page: the spinner, the alert with its retry
\* button, the 'report not found' placeholder, or the report.
DetailedReport_renderContent(ld, err, url, content) ==
    IF ld THEN "spin"
    ELSE IF Truthy(err) THEN "alert"
    ELSE IF url = Null \/ ~Truthy(content) THEN "empty"
    ELSE "report"

ReportView ==
    DetailedReport_renderContent(loading, error, reportUrl, reportContent)

\* The calls a settled call was awaited by: fetchInitialData awaits the
\* generateReport it made.
Awaiting(c) ==
    IF c.fn = "generateReport" /\ c.awaited
    THEN {d \in calls : d.fn = "fetchInitialData"}
    ELSE {}

\* The two effects of the first render, in their order: the direct-link
\* effect and fetchInitialData up to its first await.
DetailedReport_Mount ==
    /\ last = "construct"
    /\ LET direct == symbol # "" /\ IsHtml(symbol) /\ ~reportAlreadyLoaded
           file == IF direct
                   THEN {Call(issued + 1, "fetchAndDisplayReport",
                              "fetchAndDisplayReport", Null,
                              ReportPath(symbol), FALSE)}
                   ELSE {}
           n == issued + Cardinality(file)
       IN  /\ reportAlreadyLoaded' = (reportAlreadyLoaded \/ direct)
           /\ selectedSymbol' =
                  IF direct THEN baseSymbolOf(symbol) ELSE selectedSymbol
           /\ reportUrl' = IF direct THEN ReportPath(symbol) ELSE reportUrl
           /\ IF initialDataLoaded
              THEN /\ calls' = calls \cup file
                   /\ issued' = n
                   /\ sent' = [sent EXCEPT !["report_file"] = @ + Cardinality(file)]
                   /\ loading' = (loading \/ direct)
                   /\ UNCHANGED initialDataLoaded
              ELSE /\ calls' = calls \cup file \cup
                          {Call(n + 1, "fetchInitialData", "getAssets", Null,
                                Null, FALSE)}
                   /\ issued' = n + 1
                   /\ sent' = [sent EXCEPT
                                  !["report_file"] = @ + Cardinality(file),
                                  !["getAssets"] = @ + 1]
                   /\ loading' = TRUE
                   /\ initialDataLoaded' = TRUE
    /\ last' = "mount"
    /\ UNCHANGED <<symbol, error, selectedParameterSet, period, parameterSets,
                   language, reportContent, assetCategories, generatingReport,
                   reportState, debounced, recentReports, settled>>
    /\ UNCHANGED chartVars
    /\ UNCHANGED interactions

\* fetchInitialData after getAssets resolved, up to getParameters.
DetailedReport_AssetsResolve(c) ==
    /\ c.fn = "fetchInitialData"
    /\ c.at = "getAssets"
    /\ assetCategories' = Symbols
    /\ calls' = (calls \ {c}) \cup {[c EXCEPT !.at = "getParameters"]}
    /\ sent' = Bump("getParameters")
    /\ UNCHANGED <<symbol, loading, error, selectedParameterSet, period,
                   parameterSets, issued, last, selectedSymbol, language,
                   reportUrl, reportContent, reportAlreadyLoaded,
                   initialDataLoaded, generatingReport, reportState,
                   debounced, recentReports, settled>>
    /\ UNCHANGED chartVars
    /\ UNCHANGED interactions

\* fetchInitialData after getAssets or getParameters failed: catch, finally.
DetailedReport_InitialDataReject(c) ==
    /\ c.fn = "fetchInitialData"
    /\ c.at \in {"getAssets", "getParameters"}
    /\ error' = Message("error")
    /\ loading' = FALSE
    /\ calls' = calls \ {c}
    /\ UNCHANGED <<symbol, selectedParameterSet, period, parameterSets,
                   issued, last, selectedSymbol, language, reportUrl,
                   reportContent, assetCategories, reportAlreadyLoaded,
                   initialDataLoaded, generatingReport, reportState,
                   debounced, sent, recentReports,
                   settled>>
    /\ UNCHANGED chartVars
    /\ UNCHANGED interactions

\* The symbol generateReport requests the report of.
BaseSymbol(selected) ==
    IF HasUnderscore(selected) THEN baseSymbolOf(selected) ELSE selected

\* generateReport past its guard, up to the await of generateCharts, with
\* the selection its closure holds.
StartGeneration(selected, parameterSet, per, lang, awaited) ==
    /\ loading' = TRUE
    /\ error' = Null
    /\ generatingReport' = TRUE
    /\ calls' = (calls \ {d \in calls : awaited /\ d.fn = "fetchInitialData"})
                \cup {d \in {[e EXCEPT !.at = "generateReport"] :
                                 e \in {x \in calls : x.fn = "fetchInitialData"}} :
                          awaited}
                \cup {Call(issued + 1, "generateReport", "generateCharts",
                           [symbol |-> BaseSymbol(selected),
                            parameter_set |-> parameterSet,
                            period |-> per,
                            language |-> lang],
                           Null, awaited)}
    /\ issued' = issued + 1
    /\ sent' = Bump("generateCharts")

\* fetchInitialData's test without the ref.
ShouldLoadReportAlways(sym, alreadyLoaded) == sym # ""

\* if (symbol && !reportAlreadyLoaded.current)
ShouldLoadReport(sym, alreadyLoaded) == sym # "" /\ ~alreadyLoaded

\* fetchInitialData after getParameters resolved: the file of a direct link
\* is fetched, or generateReport of the first render is called, unless a
\* report was loaded already.
DetailedReport_ParametersResolve(c) ==
    /\ c.fn = "fetchInitialData"
    /\ c.at = "getParameters"
    /\ parameterSets' = <<"default", "ichimoku">>
    /\ IF ShouldLoadReport(symbol, reportAlreadyLoaded)
       THEN IF IsHtml(symbol)
            THEN /\ selectedSymbol' = IF IsReportFile(symbol)
                                      THEN baseSymbolOf(symbol)
                                      ELSE selectedSymbol
                 /\ reportAlreadyLoaded' = TRUE
                 /\ reportUrl' = ReportPath(symbol)
                 /\ loading' = TRUE
                 /\ calls' = (calls \ {c}) \cup
                        {[c EXCEPT !.at = "fetchAndDisplayReport",
                                   !.url = ReportPath(symbol)]}
                 /\ sent' = Bump("report_file")
                 /\ UNCHANGED <<error, generatingReport, issued>>
            ELSE IF ~generatingReport
            THEN /\ selectedSymbol' =
                        IF IsReportFile(symbol) \/ HasUnderscore(symbol)
                        THEN baseSymbolOf(symbol)
                        ELSE selectedSymbol
                 /\ StartGeneration(symbol, InitialParameterSet,
                                    InitialPeriod, InitialLanguage, TRUE)
                 /\ UNCHANGED <<reportAlreadyLoaded, reportUrl>>
            ELSE /\ selectedSymbol' = IF IsReportFile(symbol)
                                      THEN baseSymbolOf(symbol)
                                      ELSE selectedSymbol
                 /\ loading' = FALSE
                 /\ calls' = calls \ {c}
                 /\ UNCHANGED <<error, generatingReport, issued, sent,
                                reportAlreadyLoaded, reportUrl>>
       ELSE /\ loading' = FALSE
            /\ calls' = calls \ {c}
            /\ UNCHANGED <<error, generatingReport, issued, sent,
                           reportAlreadyLoaded, reportUrl, selectedSymbol>>
    /\ UNCHANGED <<symbol, selectedParameterSet, period, last, language,
                   reportContent, assetCategories, initialDataLoaded,
                   reportState, debounced, recentReports, settled>>
    /\ UNCHANGED chartVars
    /\ UNCHANGED interactions

\* generateReport after generateCharts resolved, up to the await of the
\* generate_report request.
DetailedReport_ChartsResolve(g) ==
    /\ g.fn = "generateReport"
    /\ g.at = "generateCharts"
    /\ calls' = (calls \ {g}) \cup {[g EXCEPT !.at = "generate_report"]}
    /\ sent' = Bump("generate_report")
    /\ UNCHANGED <<symbol, loading, error, selectedParameterSet, period,
                   parameterSets, issued, last, selectedSymbol, language,
                   reportUrl, reportContent, assetCategories,
                   reportAlreadyLoaded, initialDataLoaded, generatingReport,
                   reportState, debounced, recentReports, settled>>
    /\ UNCHANGED chartVars
    /\ UNCHANGED interactions

\* generateReport after generateCharts or the generate_report request
\* failed, or the response came without report_url: catch, finally, and the
\* finally of a fetchInitialData that awaited it.
DetailedReport_GenerationReject(g) ==
    /\ g.fn = "generateReport"
    /\ g.at \in {"generateCharts", "generate_report"}
    /\ error' = Message("error")
    /\ loading' = FALSE
    /\ generatingReport' = FALSE
    /\ calls' = (calls \ {g}) \ Awaiting(g)
    /\ UNCHANGED <<symbol, selectedParameterSet, period, parameterSets,
                   issued, last, selectedSymbol, language, reportUrl,
                   reportContent, assetCategories, reportAlreadyLoaded,
                   initialDataLoaded, reportState, debounced, sent,
                   recentReports, settled>>
    /\ UNCHANGED chartVars
    /\ UNCHANGED interactions

\* generateReport after the generate_report request resolved with a
\* report_url, up to the await in fetchAndDisplayReport.
DetailedReport_ReportResolve(g) ==
    /\ g.fn = "generateReport"
    /\ g.at = "generate_report"
    /\ reportAlreadyLoaded' = TRUE
    /\ reportUrl' = ReportUrlFor(g.request)
    /\ loading' = TRUE
    /\ calls' = (calls \ {g}) \cup
           {[g EXCEPT !.at = "fetchAndDisplayReport",
                      !.url = ReportUrlFor(g.request)]}
    /\ sent' = Bump("report_file")
    /\ UNCHANGED <<symbol, error, selectedParameterSet, period, parameterSets,
                   issued, last, selectedSymbol, language, reportContent,
                   assetCategories, initialDataLoaded, generatingReport,
                   reportState, debounced, recentReports, settled>>
    /\ UNCHANGED chartVars
    /\ UNCHANGED interactions

\* fetchAndDisplayReport after axios.get(url) settled, with the body of a
\* report (ok) or not, and what follows in the function that awaited it:
\* the finally of generateReport, the finally of fetchInitialData.
DetailedReport_FileSettle(c, ok) ==
    /\ c.at = "fetchAndDisplayReport"
    /\ reportContent' = IF ok THEN Content(c.url) ELSE reportContent
    /\ error' = IF ok THEN error ELSE Message("error_fetching_report")
    /\ loading' = FALSE
    /\ generatingReport' =
           IF c.fn = "generateReport" THEN FALSE ELSE generatingReport
    /\ calls' = (calls \ {c}) \ Awaiting(c)
    /\ UNCHANGED <<symbol, selectedParameterSet, period, parameterSets,
                   issued, last, selectedSymbol, language, reportUrl,
                   assetCategories, reportAlreadyLoaded, initialDataLoaded,
                   reportState, debounced, sent, recentReports,
                   settled>>
    /\ UNCHANGED chartVars
    /\ UNCHANGED interactions

\* generateReport's guard without the ref.
GuardedBySymbolOnly(selected, generating) == selected = ""

\* if (!selectedSymbol || generatingReport.current) return;
Guarded(selected, generating) == selected = "" \/ generating

\* A click on 'generate new report' (not while its button shows loading, nor
\* without a symbol) or on the retry button of the alert: generateReport
\* with the selection of the current render.
DetailedReport_generateReport ==
    /\ last # "construct"
    /\ interactions < MaxInteractions
    /\ \/ ~loading /\ selectedSymbol # ""
       \/ ReportView = "alert"
    /\ IF Guarded(selectedSymbol, generatingReport)
       THEN /\ last' = "blocked"
            /\ UNCHANGED <<loading, error, generatingReport, calls, issued,
                           sent, selectedSymbol>>
       ELSE /\ last' = "generateReport"
            /\ selectedSymbol' = BaseSymbol(selectedSymbol)
            /\ StartGeneration(selectedSymbol, selectedParameterSet, period,
                               language, FALSE)
    /\ interactions' = interactions + 1
    /\ UNCHANGED <<symbol, selectedParameterSet, period, parameterSets,
                   language, reportUrl, reportContent, assetCategories,
                   reportAlreadyLoaded, initialDataLoaded, reportState,
                   debounced, recentReports, settled>>
    /\ UNCHANGED chartVars

\* What the four change handlers share: the report shown is cleared.
ClearReport ==
    /\ interactions < MaxInteractions
    /\ reportUrl' = Null
    /\ reportContent' = EmptyString
    /\ reportAlreadyLoaded' = FALSE
    /\ interactions' = interactions + 1
    /\ last' = "change"
    /\ UNCHANGED <<symbol, loading, error, parameterSets, issued,
                   assetCategories, initialDataLoaded, generatingReport,
                   reportState, debounced, calls, sent, recentReports, settled>>
    /\ UNCHANGED chartVars

DetailedReport_handleSymbolChange(value) ==
    /\ last # "construct"
    /\ value # selectedSymbol
    /\ selectedSymbol' = value
    /\ ClearReport
    /\ UNCHANGED <<selectedParameterSet, period, language>>

DetailedReport_handleParameterChange(value) ==
    /\ last # "construct"
    /\ value # selectedParameterSet
    /\ selectedParameterSet' = value
    /\ ClearReport
    /\ UNCHANGED <<selectedSymbol, period, language>>

DetailedReport_handlePeriodChange(value) ==
    /\ last # "construct"
    /\ value # period
    /\ period' = value
    /\ ClearReport
    /\ UNCHANGED <<selectedSymbol, selectedParameterSet, language>>

DetailedReport_handleLanguageChange(value) ==
    /\ last # "construct"
    /\ value # language
    /\ language' = value
    /\ ClearReport
    /\ UNCHANGED <<selectedSymbol, selectedParameterSet, period>>

\* A click on the refresh button of the report shown.
DetailedReport_handleRefresh ==
    /\ last # "construct"
    /\ interactions < MaxInteractions
    /\ ReportView = "report"
    /\ reportUrl # Null
    /\ loading' = TRUE
    /\ calls' = calls \cup
           {Call(issued + 1, "fetchAndDisplayReport", "fetchAndDisplayReport",
                 Null, reportUrl, FALSE)}
    /\ issued' = issued + 1
    /\ sent' = Bump("report_file")
    /\ interactions' = interactions + 1
    /\ last' = "refresh"
    /\ UNCHANGED <<symbol, error, selectedParameterSet, period, parameterSets,
                   selectedSymbol, language, reportUrl, reportContent,
                   assetCategories, reportAlreadyLoaded, initialDataLoaded,
                   generatingReport, reportState, debounced, recentReports, settled>>
    /\ UNCHANGED chartVars

----------------------------------------------------------------------------
\* The report page built on the useReportManager hook (unnamed/part_001).
\* Its renderContent is that of the page guarded by refs, line for line.

\* The four values useDebounce returns for the selection.
Debounced(selected, parameterSet, per, lang) ==
    [symbol |-> selected, parameter_set |-> parameterSet, period |-> per,
     language |-> lang]

\* loading as generateReport reads it: useCallback(..., [t]) keeps the
\* function made by the first render, whose loading is the initial false.
MemoizedLoading == FALSE

\* if (!symbol || loading) return null;
ReportManager_Guarded(sym, ld) == sym = "" \/ ld

\* generateReport of the hook past its guard, up to the await of the
\* generate_report request.
ReportManager_generateReport(sym, parameterSet, per, lang) ==
    IF ReportManager_Guarded(sym, MemoizedLoading)
    THEN UNCHANGED <<loading, error, reportState, calls, issued, sent>>
    ELSE /\ loading' = TRUE
         /\ error' = Null
         /\ reportState' = "loading"
         /\ calls' = calls \cup
                {Call(issued + 1, "generateReport", "generate_report",
                      [symbol |-> BaseSymbol(sym),
                       parameter_set |-> parameterSet,
                       period |-> per,
                       language |-> lang],
                      Null, FALSE)}
         /\ issued' = issued + 1
         /\ sent' = Bump("generate_report")

\* The effect on the debounced values: generateReport if all four are set.
AutoGenerate(values) ==
    IF values.symbol # "" /\ values.parameter_set # "" /\ values.period # ""
       /\ values.language # ""
    THEN ReportManager_generateReport(values.symbol, values.parameter_set,
                                      values.period, values.language)
    ELSE UNCHANGED <<loading, error, reportState, calls, issued, sent>>

\* The two effects of the first render: fetchInitialData up to getAssets,
\* and the effect on the debounced values.
ReportManager_Mount ==
    /\ last = "construct"
    /\ IF debounced.symbol # ""
       THEN /\ loading' = TRUE
            /\ error' = Null
            /\ reportState' = "loading"
            /\ calls' = calls \cup
                   {Call(issued + 1, "fetchInitialData", "getAssets", Null,
                         Null, FALSE),
                    Call(issued + 2, "generateReport", "generate_report",
                         [symbol |-> BaseSymbol(debounced.symbol),
                          parameter_set |-> debounced.parameter_set,
                          period |-> debounced.period,
                          language |-> debounced.language],
                         Null, FALSE)}
            /\ issued' = issued + 2
            /\ sent' = [sent EXCEPT !["getAssets"] = @ + 1,
                                    !["generate_report"] = @ + 1]
       ELSE /\ calls' = calls \cup
                   {Call(issued + 1, "fetchInitialData", "getAssets", Null,
                         Null, FALSE)}
            /\ issued' = issued + 1
            /\ sent' = Bump("getAssets")
            /\ UNCHANGED <<loading, error, reportState>>
    /\ last' = "mount"
    /\ UNCHANGED <<symbol, selectedParameterSet, period, parameterSets,
                   selectedSymbol, language, reportUrl, reportContent,
                   assetCategories, reportAlreadyLoaded, initialDataLoaded,
                   generatingReport, debounced, recentReports, settled,
                   interactions>>
    /\ UNCHANGED chartVars

\* fetchInitialData of the hook-based page after getAssets resolved.
ReportManager_AssetsResolve(c) ==
    /\ c.fn = "fetchInitialData"
    /\ c.at = "getAssets"
    /\ assetCategories' = Symbols
    /\ calls' = (calls \ {c}) \cup {[c EXCEPT !.at = "getParameters"]}
    /\ sent' = Bump("getParameters")
    /\ UNCHANGED <<symbol, loading, error, selectedParameterSet, period,
                   parameterSets, issued, last, selectedSymbol, language,
                   reportUrl, reportContent, reportAlreadyLoaded,
                   initialDataLoaded, generatingReport, reportState,
                   debounced, recentReports, settled, interactions>>
    /\ UNCHANGED chartVars

\* fetchInitialData of the hook-based page after getAssets or getParameters
\* failed: the error is logged only.
ReportManager_InitialDataReject(c) ==
    /\ c.fn = "fetchInitialData"
    /\ c.at \in {"getAssets", "getParameters"}
    /\ calls' = calls \ {c}
    /\ UNCHANGED <<symbol, loading, error, selectedParameterSet, period,
                   parameterSets, issued, last, selectedSymbol, language,
                   reportUrl, reportContent, assetCategories,
                   reportAlreadyLoaded, initialDataLoaded, generatingReport,
                   reportState, debounced, sent, recentReports, settled,
                   interactions>>
    /\ UNCHANGED chartVars

\* fetchInitialData of the hook-based page after getParameters resolved:
\* the file of a direct link is fetched.
ReportManager_ParametersResolve(c) ==
    /\ c.fn = "fetchInitialData"
    /\ c.at = "getParameters"
    /\ parameterSets' = <<"default", "ichimoku">>
    /\ IF symbol # "" /\ IsHtml(symbol)
       THEN /\ loading' = TRUE
            /\ error' = Null
            /\ calls' = (calls \ {c}) \cup
                   {[c EXCEPT !.at = "fetchAndDisplayReport",
                              !.url = ReportPath(symbol)]}
            /\ sent' = Bump("report_file")
       ELSE /\ calls' = calls \ {c}
            /\ UNCHANGED <<loading, error, sent>>
    /\ UNCHANGED <<symbol, selectedParameterSet, period, issued, last,
                   selectedSymbol, language, reportUrl, reportContent,
                   assetCategories, reportAlreadyLoaded, initialDataLoaded,
                   generatingReport, reportState, debounced, recentReports,
                   settled, interactions>>
    /\ UNCHANGED chartVars

\* generateReport of the hook after the generate_report request settled:
\* with a report_url (ok) the URL is kept and the state is 'success';
\* otherwise the error is set.  The URL is returned to the caller.
ReportManager_GenerateSettle(g, ok) ==
    /\ g.fn = "generateReport"
    /\ g.at = "generate_report"
    /\ reportUrl' = IF ok THEN ReportUrlFor(g.request) ELSE reportUrl
    /\ error' = IF ok THEN error ELSE Message("error_generating_report")
    /\ reportState' = IF ok THEN "success" ELSE "error"
    /\ loading' = FALSE
    /\ calls' = calls \ {g}
    /\ UNCHANGED <<symbol, selectedParameterSet, period, parameterSets,
                   issued, last, selectedSymbol, language, reportContent,
                   assetCategories, reportAlreadyLoaded, initialDataLoaded,
                   generatingReport, debounced, sent, recentReports, settled,
                   interactions>>
    /\ UNCHANGED chartVars

\* fetchAndDisplayReport of the hook after axios.get(url) settled.
ReportManager_FileSettle(c, ok) ==
    /\ c.at = "fetchAndDisplayReport"
    /\ reportContent' = IF ok THEN Content(c.url) ELSE reportContent
    /\ error' = IF ok THEN error ELSE Message("error_fetching_report")
    /\ reportState' = IF ok THEN "success" ELSE "error"
    /\ loading' = FALSE
    /\ calls' = calls \ {c}
    /\ UNCHANGED <<symbol, selectedParameterSet, period, parameterSets,
                   issued, last, selectedSymbol, language, reportUrl,
                   assetCategories, reportAlreadyLoaded, initialDataLoaded,
                   generatingReport, debounced, sent, recentReports, settled,
                   interactions>>
    /\ UNCHANGED chartVars

\* A timer of useDebounce fires, 500 ms after the last change of its value:
\* the debounced value follows, and the effect on the debounced values
\* runs.
ReportManager_Debounce(field) ==
    /\ last # "construct"
    /\ debounced[field] #
           Debounced(selectedSymbol, selectedParameterSet, period, language)[field]
    /\ debounced' =
           [debounced EXCEPT ![field] =
               Debounced(selectedSymbol, selectedParameterSet, period,
                         language)[field]]
    /\ AutoGenerate(debounced')
    /\ UNCHANGED <<symbol, selectedParameterSet, period, parameterSets, last,
                   selectedSymbol, language, reportUrl, reportContent,
                   assetCategories, reportAlreadyLoaded, initialDataLoaded,
                   generatingReport, recentReports, settled, interactions>>
    /\ UNCHANGED chartVars

\* handleSymbolChange, handleParameterChange, handlePeriodChange and
\* handleLanguageChange of the hook-based page: the value is set, nothing
\* else.
ReportManager_handleChange(field, value) ==
    /\ last # "construct"
    /\ interactions < MaxInteractions
    /\ value # Debounced(selectedSymbol, selectedParameterSet, period,
                         language)[field]
    /\ selectedSymbol' = IF field = "symbol" THEN value ELSE selectedSymbol
    /\ selectedParameterSet' =
           IF field = "parameter_set" THEN value ELSE selectedParameterSet
    /\ period' = IF field = "period" THEN value ELSE period
    /\ language' = IF field = "language" THEN value ELSE language
    /\ interactions' = interactions + 1
    /\ UNCHANGED <<symbol, loading, error, parameterSets, issued, last,
                   reportUrl, reportContent, assetCategories,
                   reportAlreadyLoaded, initialDataLoaded, generatingReport,
                   reportState, debounced, calls, sent, recentReports,
                   settled>>
    /\ UNCHANGED chartVars

\* The values each Select or Radio.Group offers.
Offered(field) ==
    CASE field = "symbol" -> assetCategories
      [] field = "parameter_set" -> Range(parameterSets)
      [] field = "period" -> Periods
      [] field = "language" -> Languages

\* A click on 'generate new report' (not while its button shows loading, nor
\* without a symbol) or on the retry button of the alert.
ReportManager_Click ==
    /\ last # "construct"
    /\ interactions < MaxInteractions
    /\ \/ ~loading /\ selectedSymbol # ""
       \/ ReportView = "alert"
    /\ ReportManager_generateReport(selectedSymbol, selectedParameterSet,
                                    period, language)
    /\ interactions' = interactions + 1
    /\ UNCHANGED <<symbol, selectedParameterSet, period, parameterSets, last,
                   selectedSymbol, language, reportUrl, reportContent,
                   assetCategories, reportAlreadyLoaded, initialDataLoaded,
                   generatingReport, debounced, recentReports, settled>>
    /\ UNCHANGED chartVars

\* A click on the refresh button of the report shown.
ReportManager_handleRefresh ==
    /\ last # "construct"
    /\ interactions < MaxInteractions
    /\ ReportView = "report"
    /\ reportUrl # Null
    /\ loading' = TRUE
    /\ error' = Null
    /\ calls' = calls \cup
           {Call(issued + 1, "fetchAndDisplayReport", "fetchAndDisplayReport",
                 Null, reportUrl, FALSE)}
    /\ issued' = issued + 1
    /\ sent' = Bump("report_file")
    /\ interactions' = interactions + 1
    /\ UNCHANGED <<symbol, selectedParameterSet, period, parameterSets, last,
                   selectedSymbol, language, reportUrl, reportContent,
                   assetCategories, reportAlreadyLoaded, initialDataLoaded,
                   generatingReport, reportState, debounced, recentReports,
                   settled>>
    /\ UNCHANGED chartVars

----------------------------------------------------------------------------
\* ApiService.getRecentReports (web/src/App.js) and the dashboard hook that
\* calls it (components/Dashboard.js, useRecentReports).

\* getRecentReports(limit = 5)
DefaultLimit == 5

\* The status the mock data answers.
NotFound == 404

Report(sym, parameterSet, date, filename) ==
    [symbol |-> sym, parameterSet |-> parameterSet, date |-> date,
     filename |-> filename, url |-> "/reports/" \o filename]

\* The list returned in place of a 404.
MockReports ==
    << Report("EURUSD", "trend_following", "2025-05-02",
              "EURUSD_interactive_report_20250502_trend_following.html"),
       Report("GOLD", "default", "2025-05-03",
              "GOLD_interactive_report_20250503_default.html"),
       Report("GBPUSD", "momentum", "2025-05-01",
              "GBPUSD_interactive_report_20250501_momentum.html") >>

\* What the server may list.
ServerReports ==
    { <<>>,
      <<Report("AAPL", "default", "2025-05-04",
               "AAPL_interactive_report_20250504_default.html")>>,
      <<Report("AAPL", "default", "2025-05-04",
               "AAPL_interactive_report_20250504_default.html"),
        Report("GOLD", "default", "2025-05-03",
               "GOLD_interactive_report_20250503_default.html")>>,
      MockReports }

Statuses == {200, 201, 400, 401, 403, 404, 500, 503}

\* How axios.get may end: with a response of some status and body, or
\* without any response (network error, timeout).
Outcomes ==
    {[kind |-> "response", status |-> s, data |-> d] :
        s \in Statuses, d \in ServerReports}
    \cup {[kind |-> "no response"]}

\* axios resolves on a 2xx status and rejects otherwise, the response under
\* error.response.
Resolves(outcome) ==
    /\ outcome.kind = "response"
    /\ outcome.status >= 200
    /\ outcome.status < 300

Resolved(value) == [settled |-> "resolved", value |-> value]
Rejected(reason) == [settled |-> "rejected", reason |-> reason]

\* getRecentReports with every failure rethrown.
getRecentReportsRethrowAll(outcome) ==
    IF Resolves(outcome) THEN Resolved(outcome.data) ELSE Rejected(outcome)

\* ApiService.getRecentReports, given how its axios.get ended.
getRecentReports(outcome) ==
    IF Resolves(outcome)
    THEN Resolved(outcome.data)
    ELSE IF outcome.kind = "response" /\ outcome.status = NotFound
    THEN Resolved(MockReports)
    ELSE Rejected(outcome)

\* fetchData of useRecentReports up to its await: on mount, and on a click
\* on refresh (disabled while loading) or retry (shown with the error).
useRecentReports_fetchData ==
    /\ issued < MaxRequests
    /\ last = "construct" \/ ~loading \/ Truthy(error)
    /\ loading' = TRUE
    /\ error' = Null
    /\ requests' = requests \cup
           {[id |-> issued + 1, endpoint |-> "/api/recent_reports",
             params |-> [limit |-> DefaultLimit]]}
    /\ issued' = issued + 1
    /\ last' = "request"
    /\ UNCHANGED <<symbol, selectedParameterSet, period, parameterSets,
                   selectedSymbol, language, reportUrl, reportContent,
                   assetCategories, reportAlreadyLoaded, initialDataLoaded,
                   generatingReport, reportState, debounced, calls, sent,
                   recentReports, settled, interactions>>
    /\ UNCHANGED <<INDICATOR_CONFIG, chartData, plotData, parts, priceTrace,
                   called, key, subplot, styleOfKey, parametersLoading,
                   committed, view, plotLayout>>

\* fetchData after its await: getRecentReports settled, given how the
\* request ended.
useRecentReports_Settle(r, outcome) ==
    /\ r \in requests
    /\ settled' = [outcome |-> outcome, result |-> getRecentReports(outcome)]
    /\ IF settled'.result.settled = "resolved"
       THEN /\ recentReports' = settled'.result.value
            /\ UNCHANGED error
       ELSE /\ error' = Message("dashboard.errors.reports_fetch_error")
            /\ UNCHANGED recentReports
    /\ loading' = FALSE
    /\ requests' = requests \ {r}
    /\ last' = "settle"
    /\ UNCHANGED <<symbol, selectedParameterSet, period, parameterSets,
                   issued, selectedSymbol, language, reportUrl,
                   reportContent, assetCategories, reportAlreadyLoaded,
                   initialDataLoaded, generatingReport, reportState,
                   debounced, calls, sent, interactions>>
    /\ UNCHANGED <<INDICATOR_CONFIG, chartData, plotData, parts, priceTrace,
                   called, key, subplot, styleOfKey, parametersLoading,
                   committed, view, plotLayout>>

---------------------------------------------------------------------------
\* Specifications.

\* The classifier applied to one name under one configuration object.
InitClassify ==
    /\ INDICATOR_CONFIG \in ClassifierConfigs
    /\ key \in Names
    /\ subplot = "pending"
    /\ symbol = "AAPL"
    /\ chartData = <<>>
    /\ plotData = <<>>
    /\ parts = NoParts
    /\ priceTrace = <<>>
    /\ styleOfKey = NoStyle
    /\ called = <<>>
    /\ Constructed
    /\ NoReport

NextClassify == Classify

SpecClassify == InitClassify /\ [][NextClassify]_vars

\* The trace builders applied to one response, and the styler to one name,
\* the configuration as loaded.
InitBuild ==
    /\ INDICATOR_CONFIG = LoadedIndicatorConfig
    /\ \/ key = "RSI" /\ IsResponse(chartData)
       \/ key \in Names /\ chartData = <<>>
    /\ subplot = "pending"
    /\ symbol = "AAPL"
    /\ plotData = <<>>
    /\ parts = NoParts
    /\ priceTrace = <<>>
    /\ styleOfKey = NoStyle
    /\ called = <<>>
    /\ Constructed
    /\ NoReport

NextBuild == CreatePriceTrace \/ PreparePlotData \/ GetIndicatorStyle

SpecBuild == InitBuild /\ [][NextBuild]_vars

Init == InitBuild

Next == Classify \/ GetIndicatorStyle \/ CreatePriceTrace \/ PreparePlotData

Spec == Init /\ [][Next]_vars

\* A mounted ChartAnalysis component: its requests, their outcomes in any
\* order, and the render after each state update.
InitComponent ==
    /\ INDICATOR_CONFIG = LoadedIndicatorConfig
    /\ symbol = "AAPL"
    /\ chartData = <<>>
    /\ plotData = <<>>
    /\ parts = NoParts
    /\ priceTrace = <<>>
    /\ key = "RSI"
    /\ subplot = "pending"
    /\ styleOfKey = NoStyle
    /\ called = <<>>
    /\ Constructed
    /\ NoReport

NextComponent ==
    \/ Mount
    \/ \E value \in Range(parameterSets) : handleParameterChange(value)
    \/ \E value \in Periods : handlePeriodChange(value)
    \/ \E value \in Symbols : ChangeSymbol(value)
    \/ Refresh
    \/ Retry
    \/ \E r \in requests, body \in Bodies : Resolve(r, body)
    \/ \E r \in requests : Reject(r)
    \/ ParametersResolve
    \/ ParametersReject
    \/ Rerender

SpecComponent == InitComponent /\ [][NextComponent]_vars

\* A mounted report page (the version guarded by refs): the route symbol,
\* the two mount effects, the user's changes and clicks, and the outcomes
\* of the requests in any order.
InitReport ==
    /\ INDICATOR_CONFIG = LoadedIndicatorConfig
    /\ symbol \in RouteSymbols
    /\ chartData = <<>>
    /\ plotData = <<>>
    /\ parts = NoParts
    /\ priceTrace = <<>>
    /\ key = "RSI"
    /\ subplot = "pending"
    /\ styleOfKey = NoStyle
    /\ called = <<>>
    /\ Constructed
    /\ selectedSymbol = symbol
    /\ language = InitialLanguage
    /\ reportUrl = Null
    /\ reportContent = EmptyString
    /\ assetCategories = {}
    /\ reportAlreadyLoaded = FALSE
    /\ initialDataLoaded = FALSE
    /\ generatingReport = FALSE
    /\ reportState = "idle"
    /\ debounced = <<>>
    /\ calls = {}
    /\ sent = [e \in Endpoints |-> 0]
    /\ recentReports = <<>>
    /\ settled = Null
    /\ interactions = 0

NextReport ==
    \/ DetailedReport_Mount
    \/ \E c \in calls : DetailedReport_AssetsResolve(c)
    \/ \E c \in calls : DetailedReport_InitialDataReject(c)
    \/ \E c \in calls : DetailedReport_ParametersResolve(c)
    \/ \E g \in calls : DetailedReport_ChartsResolve(g)
    \/ \E g \in calls : DetailedReport_GenerationReject(g)
    \/ \E g \in calls : DetailedReport_ReportResolve(g)
    \/ \E c \in calls, ok \in BOOLEAN : DetailedReport_FileSettle(c, ok)
    \/ DetailedReport_generateReport
    \/ \E value \in assetCategories : DetailedReport_handleSymbolChange(value)
    \/ \E value \in Range(parameterSets) :
           DetailedReport_handleParameterChange(value)
    \/ \E value \in Periods : DetailedReport_handlePeriodChange(value)
    \/ \E value \in Languages : DetailedReport_handleLanguageChange(value)
    \/ DetailedReport_handleRefresh

SpecReport == InitReport /\ [][NextReport]_vars

\* A mounted report page built on useReportManager.
InitHook ==
    /\ INDICATOR_CONFIG = LoadedIndicatorConfig
    /\ symbol \in RouteSymbols
    /\ chartData = <<>>
    /\ plotData = <<>>
    /\ parts = NoParts
    /\ priceTrace = <<>>
    /\ key = "RSI"
    /\ subplot = "pending"
    /\ styleOfKey = NoStyle
    /\ called = <<>>
    /\ Constructed
    /\ selectedSymbol = symbol
    /\ language = InitialLanguage
    /\ reportUrl = Null
    /\ reportContent = EmptyString
    /\ assetCategories = {}
    /\ reportAlreadyLoaded = FALSE
    /\ initialDataLoaded = FALSE
    /\ generatingReport = FALSE
    /\ reportState = "idle"
    /\ debounced = Debounced(symbol, InitialParameterSet, InitialPeriod,
                             InitialLanguage)
    /\ calls = {}
    /\ sent = [e \in Endpoints |-> 0]
    /\ recentReports = <<>>
    /\ settled = Null
    /\ interactions = 0

Fields == {"symbol", "parameter_set", "period", "language"}

NextHook ==
    \/ ReportManager_Mount
    \/ \E c \in calls : ReportManager_AssetsResolve(c)
    \/ \E c \in calls : ReportManager_InitialDataReject(c)
    \/ \E c \in calls : ReportManager_ParametersResolve(c)
    \/ \E g \in calls, ok \in BOOLEAN : ReportManager_GenerateSettle(g, ok)
    \/ \E c \in calls, ok \in BOOLEAN : ReportManager_FileSettle(c, ok)
    \/ \E field \in Fields : ReportManager_Debounce(field)
    \/ \E field \in Fields :
           \E value \in Offered(field) : ReportManager_handleChange(field, value)
    \/ ReportManager_Click
    \/ ReportManager_handleRefresh

SpecHook == InitHook /\ [][NextHook]_vars

\* The dashboard's list of recent reports: the fetch on mount, refreshes,
\* and every way a request may end.
InitRecent ==
    /\ INDICATOR_CONFIG = LoadedIndicatorConfig
    /\ symbol = ""
    /\ chartData = <<>>
    /\ plotData = <<>>
    /\ parts = NoParts
    /\ priceTrace = <<>>
    /\ key = "RSI"
    /\ subplot = "pending"
    /\ styleOfKey = NoStyle
    /\ called = <<>>
    /\ Constructed
    /\ NoReport

NextRecent ==
    \/ useRecentReports_fetchData
    \/ \E r \in requests, outcome \in Outcomes :
           useRecentReports_Settle(r, outcome)

SpecRecent == InitRecent /\ [][NextRecent]_vars




---------------------------------------------------------------------------
\* Properties of the classifier (checked under SpecClassify).

\* The name starts with one of the main-plot names 'SMA', 'EMA'.
CoveredByMainPlot(k) ==
    \E prefix \in {"SMA", "EMA"} : StartsWith(Chars[k], Chars[prefix])

Classified == called = <<"getIndicatorSubplot">>

\* Pane p of the configuration lists a member equal to the name.
PaneLists(p, k) ==
    ArrayIncludes(INDICATOR_CONFIG.subplots[p].indicators, k)

\* C1: every name covered by the main-plot list is classified to the price
\* pane 'y', whatever the subplot lists y2..y5 hold, also when one of them
\* lists a member that matches the name.
C1_MainPlotFirst ==
    (Classified /\ CoveredByMainPlot(key)) => subplot = "y"

\* A main-plot name that a subplot list names too has been classified.
C1_Witness ==
    /\ Classified
    /\ CoveredByMainPlot(key)
    /\ \E p \in 1..Len(INDICATOR_CONFIG.subplots) : PaneLists(p, key)

\* The axis of the first pane, in the declared order, among the panes given
\* by their places; null when none is given.
FirstPane(panes) ==
    IF panes = {} THEN "null"
    ELSE INDICATOR_CONFIG.subplots[
             CHOOSE p \in panes : \A q \in panes : p <= q].axis

\* The members pane p lists.
Members(p) == Range(INDICATOR_CONFIG.subplots[p].indicators)

Panes == 1..Len(INDICATOR_CONFIG.subplots)

\* name equals m, or starts with m and '_', or m is a suffix of name.
MemberIsSuffix(k, m) ==
    \/ k = m
    \/ StartsWith(Chars[k], Chars[m] \o <<"_">>)
    \/ EndsWith(Chars[k], Chars[m])

\* name equals m, or starts with m and '_', or name is a suffix of m.
NameIsSuffix(k, m) ==
    \/ k = m
    \/ StartsWith(Chars[k], Chars[m] \o <<"_">>)
    \/ EndsWith(Chars[m], Chars[k])

DeclaredOrder ==
    [p \in Panes |-> INDICATOR_CONFIG.subplots[p].axis]
        = <<"y2", "y3", "y4", "y5">>

\* C2 as stated: a name the main-plot list does not match is classified to
\* the first pane in the order y2, y3, y4, y5 with a member m such that the
\* name equals m, starts with m and '_', or has m as a suffix, and to null
\* exactly when there is no such pane.
C2_AsStated ==
    (Classified /\ ~CoveredByMainPlot(key)) =>
        /\ DeclaredOrder
        /\ subplot =
               FirstPane({p \in Panes : \E m \in Members(p) : MemberIsSuffix(key, m)})

\* C2 amended: the third way to match is that the name is a suffix of m.
C2_FirstMatchingPane ==
    (Classified /\ ~CoveredByMainPlot(key)) =>
        /\ DeclaredOrder
        /\ subplot =
               FirstPane({p \in Panes : \E m \in Members(p) : NameIsSuffix(key, m)})

\* A name that is no member but a suffix of members of two panes has been
\* classified to the earlier of the two.
C2_Witness ==
    /\ Classified
    /\ ~CoveredByMainPlot(key)
    /\ INDICATOR_CONFIG = LoadedIndicatorConfig
    /\ \A p \in 1..Len(subplots) : ~PaneLists(p, key)
    /\ subplot = "y2"
    /\ \E p \in 2..Len(subplots) :
           \E i \in 1..Len(subplots[p].indicators) :
               EndsWith(Chars[subplots[p].indicators[i]], Chars[key])

---------------------------------------------------------------------------
\* Properties of the trace builders (checked under SpecBuild).

\* preparePlotData has returned; with rows, every builder has run.
Rendered == called = <<"preparePlotData">>
PriceCalled == called = <<"createPriceTrace">>
Styled == called = <<"getIndicatorStyle">>

\* A finite number, as the cells of a response carry it.
FiniteNumber(v) == v.tag = "number"

\* The value of column k in row i of the rows rendered.
Cell(i, k) == IF k \in DOMAIN chartData[i] THEN chartData[i][k] ELSE Undefined

\* Column k has at least one finite value.
HasData(k) == \E i \in 1..Len(chartData) : FiniteNumber(Cell(i, k))

\* The places of a trace list that hold a trace built from column k.
Places(traces, k) ==
    {j \in 1..Len(traces) : "key" \in DOMAIN traces[j] /\ traces[j].key = k}

\* The band triplets, each as <<High, Mid, Low>>.
Bands ==
    { <<"BB_High", "BB_Mid", "BB_Low">>,
      <<"BB_Tight_High", "BB_Tight_Mid", "BB_Tight_Low">>,
      <<"BB_Wide_High", "BB_Wide_Mid", "BB_Wide_Low">> }

BandPresent(band) == HasData(band[1]) /\ HasData(band[2]) /\ HasData(band[3])

\* C3: for each Bollinger triplet whose High, Mid and Low columns all have a
\* finite value, createVolatilityTraces emits its three traces next to each
\* other in the order Low, Mid, High, each once, and the Low trace has
\* fill = 'tonexty'.
C3_BandOrder ==
    Rendered =>
        \A band \in Bands :
            BandPresent(band) =>
                LET traces == parts.volatility
                IN  /\ \A c \in 1..3 : Cardinality(Places(traces, band[c])) = 1
                    /\ \E j \in 1..(Len(traces) - 2) :
                           /\ traces[j].key = band[3]
                           /\ traces[j + 1].key = band[2]
                           /\ traces[j + 2].key = band[1]
                           /\ "fill" \in DOMAIN traces[j]
                           /\ traces[j].fill = "tonexty"

\* Two triplets with data have been rendered together.
C3_Witness ==
    /\ Rendered
    /\ BandPresent(<<"BB_High", "BB_Mid", "BB_Low">>)
    /\ BandPresent(<<"BB_Tight_High", "BB_Tight_Mid", "BB_Tight_Low">>)
    /\ Len(parts.volatility) = 6

\* A trace with fill = 'tonexty' built from the Low column of a band.
FilledLow(t) ==
    /\ "key" \in DOMAIN t
    /\ \E band \in Bands : t.key = band[3]
    /\ "fill" \in DOMAIN t
    /\ t.fill = "tonexty"

\* Traces a and b are built from different columns of one band triplet and
\* lie on the same pane.
SameBand(a, b) ==
    /\ "key" \in DOMAIN a
    /\ "key" \in DOMAIN b
    /\ a.key # b.key
    /\ \E band \in Bands : {a.key, b.key} \subseteq {band[1], band[2], band[3]}
    /\ a.yaxis = b.yaxis

\* C4: in the trace list of a full render, the trace a band's filled Low
\* trace refers to, the one just before it in the list, exists and is
\* another member of the same band triplet on the same pane.
C4_FillRefersToOwnBand ==
    Rendered =>
        \A j \in 1..Len(plotData) :
            FilledLow(plotData[j]) =>
                j > 1 /\ SameBand(plotData[j], plotData[j - 1])

\* The builders' return values, one after the other.
BuilderOutput ==
    parts.ma \o parts.oscillator \o parts.macd \o parts.volatility
    \o parts.volume

\* C5: for every indicator column whose values are all non-finite (null,
\* undefined or absent, NaN, infinite), no builder returns a trace for it,
\* also when other columns of its band or Ichimoku group have data.
C5_NoTraceWithoutData ==
    Rendered =>
        \A k \in AllColumns \ PriceFields :
            ~HasData(k) =>
                /\ Places(BuilderOutput, k) = {}
                /\ Places(plotData, k) = {}

\* A band was rendered whose Mid column is null in every row while its High
\* and Low columns have data.
C5_Witness ==
    /\ Rendered
    /\ \E band \in Bands :
           /\ HasData(band[1])
           /\ HasData(band[3])
           /\ \A i \in 1..Len(chartData) : Cell(i, band[2]) \in {Null, NaN, Infinity}
           /\ Places(parts.volatility, band[1]) # {}
           /\ Places(parts.volatility, band[3]) # {}

\* marker.color of a trace: read through the reference when the marker is
\* the configuration's own marker object.
MarkerColor(t) ==
    IF "ref" \in DOMAIN t.marker
    THEN INDICATOR_CONFIG.styling[t.marker.ref].marker.color
    ELSE t.marker.color

HistogramColumns == {"MACD_Histogram", "MACD_HF_Histogram"}

\* C6: every emitted histogram trace (MACD_Histogram, MACD_HF_Histogram) is a
\* bar trace whose marker.color has, for each row, the positive colour when
\* the value is finite and >= 0, the negative colour when it is finite and
\* < 0, and the transparent colour when it is absent or not finite.
C6_HistogramColors ==
    Rendered =>
        \A j \in 1..Len(plotData) :
            LET t == plotData[j]
            IN  ("key" \in DOMAIN t /\ t.key \in HistogramColumns) =>
                    /\ t.type = "bar"
                    /\ "marker" \in DOMAIN t
                    /\ Len(MarkerColor(t)) = Len(chartData)
                    /\ \A i \in 1..Len(chartData) :
                           LET v == Cell(i, t.key)
                           IN  MarkerColor(t)[i] =
                                   IF FiniteNumber(v) /\ v.n >= 0
                                   THEN "rgba(0, 128, 0, 0.7)"
                                   ELSE IF FiniteNumber(v)
                                   THEN "rgba(255, 0, 0, 0.7)"
                                   ELSE "rgba(0,0,0,0)"

\* A histogram was rendered from rows with a negative value and a null.
C6_Witness ==
    /\ Rendered
    /\ \E k \in HistogramColumns :
           /\ Places(plotData, k) # {}
           /\ \E i \in 1..Len(chartData) : Cell(i, k) = Null
           /\ \E i \in 1..Len(chartData) :
                  FiniteNumber(Cell(i, k)) /\ Cell(i, k).n < 0

\* The columns that are indicators: all but the price fields and Volume.
IndicatorColumns == AllColumns \ (PriceFields \cup {"Volume"})

\* C7: every indicator column with a finite value that getIndicatorSubplot
\* maps to a pane yields exactly one trace, on that pane, in
\* preparePlotData's output; only columns mapped to null yield none.
C7_EveryClassifiedColumnRendered ==
    (Rendered /\ Len(chartData) > 0) =>
        \A k \in IndicatorColumns :
            (HasData(k) /\ getIndicatorSubplot(k) # NullAxis) =>
                /\ Cardinality(Places(plotData, k)) = 1
                /\ \A j \in Places(plotData, k) :
                       plotData[j].yaxis = getIndicatorSubplot(k)

\* What createPriceTrace is to return for the rows in chartData.
PriceTraceAsClaimed(traces) ==
    LET full == \A f \in PriceFields : HasData(f)
    IN  /\ Len(traces) <= 1
        /\ Len(chartData) = 0 => traces = <<>>
        /\ (Len(chartData) > 0 /\ full) =>
               Len(traces) = 1 /\ traces[1].type = "candlestick"
        /\ (Len(chartData) > 0 /\ ~full /\ HasData("Close")) =>
               /\ Len(traces) = 1
               /\ traces[1].type = "scatter"
               /\ traces[1].mode = "lines"
               /\ Len(traces[1].y) = Len(chartData)
               /\ \A i \in 1..Len(chartData) :
                      FiniteNumber(Cell(i, "Close")) =>
                          traces[1].y[i] = Cell(i, "Close")
        /\ ~HasData("Close") => traces = <<>>

\* C8: createPriceTrace returns one candlestick trace when Open, High, Low
\* and Close all have data, one line trace over Close when they do not but
\* Close has data, and no trace when Close has none or there are no rows:
\* at most one trace in every case.
C8_PriceTraceDegrades ==
    /\ PriceCalled => PriceTraceAsClaimed(priceTrace)
    /\ (Rendered /\ Len(chartData) > 0) => PriceTraceAsClaimed(parts.price)

\* createPriceTrace was called on rows with Close but not all of Open, High
\* and Low, and returned a line trace.
C8_Witness ==
    /\ PriceCalled
    /\ HasData("Close")
    /\ \E f \in PriceFields : ~HasData(f)
    /\ \E f \in PriceFields \ {"Close"} : HasData(f)
    /\ Len(priceTrace) = 1
    /\ priceTrace[1].type = "scatter"

\* The name is in one of the default-visible lists.
DefaultVisible(k) ==
    k \in { "SMA20", "SMA50", "SMA200", "EMA20",
            "RSI", "STOCH_K", "STOCH_D",
            "MACD", "MACD_Signal", "MACD_Histogram",
            "BB_High", "BB_Mid", "BB_Low",
            "OBV", "OBV_MA" }

Hidden(k) == k \in Range(DEFAULT_VISIBLE_INDICATORS.hidden)

\* The visibility the priority order gives a name.
VisibleByPriority(k) ==
    IF k \in DOMAIN styling /\ "visible" \in DOMAIN styling[k]
    THEN styling[k].visible
    ELSE IF DefaultVisible(k) THEN TRUE
    ELSE ~Hidden(k)

\* C9: the visible flag of every emitted indicator trace is the one of the
\* explicit styling entry of its name if there is one, else true if the name
\* is in a default-visible group, else false exactly when the name is in the
\* hidden list; every name in a default-visible group is emitted visible.
C9_VisibilityPriority ==
    /\ Rendered =>
           \A j \in 1..Len(plotData) :
               LET t == plotData[j]
               IN  "key" \in DOMAIN t =>
                       /\ t.visible = VisibleByPriority(t.key)
                       /\ DefaultVisible(t.key) => t.visible = TRUE
    /\ Styled =>
           /\ styleOfKey.visible = VisibleByPriority(key)
           /\ DefaultVisible(key) => styleOfKey.visible = TRUE

\* A trace was emitted hidden by its styling entry although its name is
\* in no hidden list, and one whose name is in a default-visible group.
C9_Witness ==
    /\ Rendered
    /\ \E j \in 1..Len(plotData) :
           /\ "key" \in DOMAIN plotData[j]
           /\ ~Hidden(plotData[j].key)
           /\ ~DefaultVisible(plotData[j].key)
           /\ plotData[j].visible = FALSE
    /\ \E j \in 1..Len(plotData) :
           /\ "key" \in DOMAIN plotData[j]
           /\ DefaultVisible(plotData[j].key)

\* The column a line, marker or bar trace plots: Close for the price line.
PlottedColumn(t) == IF "key" \in DOMAIN t THEN t.key ELSE "Close"

\* x holds the rows' dates in input order and y each row's value where it
\* is a finite number and null elsewhere.
PlotsRows(t) ==
    /\ Len(t.x) = Len(chartData)
    /\ Len(t.y) = Len(chartData)
    /\ \A i \in 1..Len(chartData) :
           /\ t.x[i] = chartData[i].Date
           /\ t.y[i] = IF FiniteNumber(Cell(i, PlottedColumn(t)))
                       THEN Cell(i, PlottedColumn(t))
                       ELSE Null

AllPlotRows(traces) ==
    \A j \in 1..Len(traces) :
        traces[j].type # "candlestick" => PlotsRows(traces[j])

\* C10: every emitted line, marker or bar trace has x and y of the length of
\* the rows, x the rows' dates in input order, and y the row's value where
\* it is a finite number and null elsewhere: no 0 for a missing value, no
\* row dropped or moved.
C10_ValuesAndOrderKept ==
    /\ Rendered => AllPlotRows(plotData)
    /\ PriceCalled => AllPlotRows(priceTrace)

\* A trace was emitted over several rows, one without a finite value.
C10_Witness ==
    /\ Rendered
    /\ Len(chartData) >= 2
    /\ \E j \in 1..Len(plotData) :
           /\ "key" \in DOMAIN plotData[j]
           /\ \E i \in 1..Len(chartData) :
                  ~FiniteNumber(Cell(i, plotData[j].key))

---------------------------------------------------------------------------
\* Properties of the Ichimoku traces (checked under SpecBuild).

CloudBoundaries == {"Ichimoku_SpanB", "Ichimoku_SpanA"}
CloudLines == {"Ichimoku_Tenkan", "Ichimoku_Kijun", "Ichimoku_Chikou"}

\* The place of a column in the order SpanB, SpanA, Tenkan, Kijun, Chikou.
CloudRank(k) ==
    CASE k = "Ichimoku_SpanB" -> 1
      [] k = "Ichimoku_SpanA" -> 2
      [] k = "Ichimoku_Tenkan" -> 3
      [] k = "Ichimoku_Kijun" -> 4
      [] k = "Ichimoku_Chikou" -> 5

\* The places of a trace list that hold an Ichimoku trace.
CloudPlaces(traces) ==
    {j \in 1..Len(traces) : traces[j].key \in CloudBoundaries \cup CloudLines}

\* C11: createVolatilityTraces emits the Ichimoku traces that have data, each
\* once, in the order SpanB, SpanA, Tenkan, Kijun, Chikou, for every subset
\* of the five columns that has data: no line trace comes before a boundary
\* trace.
C11_IchimokuOrder ==
    Rendered =>
        LET traces == parts.volatility
        IN  /\ \A k \in CloudBoundaries \cup CloudLines :
                   Cardinality(Places(traces, k)) = IF HasData(k) THEN 1 ELSE 0
            /\ \A i, j \in CloudPlaces(traces) :
                   i < j => CloudRank(traces[i].key) < CloudRank(traces[j].key)
            /\ \A i, j \in CloudPlaces(traces) :
                   (traces[i].key \in CloudLines
                    /\ traces[j].key \in CloudBoundaries) => j < i

\* A cloud was rendered from SpanA and two lines, SpanB and Tenkan having no
\* data.
C11_Witness ==
    /\ Rendered
    /\ HasData("Ichimoku_SpanA") /\ ~HasData("Ichimoku_SpanB")
    /\ HasData("Ichimoku_Kijun") /\ HasData("Ichimoku_Chikou")
    /\ ~HasData("Ichimoku_Tenkan")
    /\ Cardinality(CloudPlaces(parts.volatility)) = 3

---------------------------------------------------------------------------
\* Properties of the layout (checked under SpecComponent).

Plotted == view = "plot"

\* The panes from top to bottom: price, oscillator, MACD, overlay, volume.
PaneOrder == <<"y", "y2", "y3", "y4", "y5">>

\* The layout field that holds the axis of a pane.
AxisOf(pane) ==
    CASE pane = "y" -> "yaxis"
      [] pane = "y2" -> "yaxis2"
      [] pane = "y3" -> "yaxis3"
      [] pane = "y4" -> "yaxis4"
      [] pane = "y5" -> "yaxis5"

\* The places in PaneOrder of the panes that received a trace.
ActivePanes ==
    {p \in 1..Len(PaneOrder) :
        \E j \in 1..Len(plotData) : plotData[j].yaxis = PaneOrder[p]}

\* The panes the layout has an axis for.
LayoutPanes ==
    {p \in 1..Len(PaneOrder) : AxisOf(PaneOrder[p]) \in DOMAIN plotLayout}

DomainOf(p) == plotLayout[AxisOf(PaneOrder[p])].domain

\* Pane q is the next one below pane p among the panes of the set.
NextBelow(panes, p, q) ==
    /\ p < q
    /\ ~ \E r \in panes : p < r /\ r < q

C14_OscillatorRangeFixed ==
    Plotted =>
        /\ plotLayout.yaxis2.range = <<0, 100>>
        /\ plotLayout.yaxis2.autorange = FALSE
        /\ \A p \in {1, 3, 4, 5} :
               plotLayout[AxisOf(PaneOrder[p])].autorange = TRUE

---------------------------------------------------------------------------
\* Properties of repeated renders (checked under SpecComponent).

\* A trace as the chart widget reads it: its marker is the configuration's
\* marker object when the trace refers to that.
TraceValue(t, config) ==
    IF "marker" \in DOMAIN t /\ "ref" \in DOMAIN t.marker
    THEN [t EXCEPT !.marker = config.styling[t.marker.ref].marker]
    ELSE t

FigureValue(traces, config) ==
    [j \in 1..Len(traces) |-> TraceValue(traces[j], config)]

\* What the first render after module load returns for the rows and symbol
\* of the component.
FirstRenderValue ==
    LET fresh == PlotDataIn(LoadedIndicatorConfig, chartData, symbol)
    IN  FigureValue(fresh.allTraces, fresh.config)

\* C15: a render returns the trace list and layout that the same rows,
\* symbol, parameter set and period give in the first render after module
\* load, whatever renders came before it: nothing an earlier render left
\* behind changes the result.
C15_RenderDeterministic ==
    Plotted =>
        /\ FigureValue(plotData, INDICATOR_CONFIG) = FirstRenderValue
        /\ plotLayout.title = <<symbol, selectedParameterSet, period>>
        /\ plotLayout = preparePlotLayout(symbol, selectedParameterSet, period)

\* Rows with a MACD histogram were rendered after an earlier render had
\* left the colours of other rows in the configuration.
C15_Witness ==
    /\ Plotted
    /\ HasData("MACD_Histogram")
    /\ ~HasData("MACD_HF_Histogram")
    /\ INDICATOR_CONFIG.styling["MACD_HF_Histogram"].marker.color # <<>>
    /\ issued = 2

\* C16: INDICATOR_CONFIG, every styling entry included, holds what it held
\* at module load after any number of renders.  (DEFAULT_VISIBLE_INDICATORS
\* is assigned nowhere.)
C16_ConfigNeverMutated == INDICATOR_CONFIG = LoadedIndicatorConfig

\* C17: no step changes a field of a trace of the figure the last render
\* returned.
C17_FigureNeverChanged ==
    [][FigureValue(plotData, INDICATOR_CONFIG)
           = FigureValue(plotData, INDICATOR_CONFIG')]_vars

---------------------------------------------------------------------------
\* Properties of the requests of the component (checked under SpecComponent).

\* C18: chartData never holds the response of a call other than the one
\* made last: the completion of an older call is discarded, so that once all
\* calls have finished the rows shown are those of the latest call.
C18_LatestRequestCommitted == committed \in {0, issued}

\* C19: a failed getChartData call leaves the component showing the error
\* alert with its retry button, error set; and preparePlotData and
\* preparePlotLayout run only when loading is false, error is null and
\* chartData is non-empty.
C19_ErrorStateNoPipeline ==
    /\ last = "reject" => (error # Null /\ view = "alert")
    /\ Plotted => (~loading /\ error = Null /\ Len(chartData) > 0)

\* A call failed while the rows of another call were held: the alert is
\* shown, not the chart.
C19_Witness ==
    /\ last = "reject"
    /\ Len(chartData) > 0
    /\ view = "alert"

\* The rows have a finite value in some column.
Usable(data) ==
    \E i \in 1..Len(data) :
        \E k \in DOMAIN data[i] \ {"Date"} : FiniteNumber(data[i][k])

\* C20: when a call resolves with no rows, or with rows that have no finite
\* value in any column, error stays null and the component shows the empty
\* placeholder, not a chart.
C20_EmptyInputGivesPlaceholder ==
    [][(last' = "resolve" /\ ~Usable(chartData') /\ error = Null) =>
           (error' = Null /\ view' = "empty")]_vars

----------------------------------------------------------------------------
\* The example figures.

\* The rows rendered hold Date and the columns of the set, each with a
\* finite value, and no other column.
RowsHoldOnly(columns) ==
    /\ Len(chartData) > 0
    /\ \A i \in 1..Len(chartData) :
           DOMAIN chartData[i] = {"Date"} \cup columns
    /\ \A k \in columns : HasData(k)

\* The column a trace was built from; "price" for the price trace.
TraceKey(t) == IF "key" \in DOMAIN t THEN t.key ELSE "price"

\* The traces of the figure on a pane, in the order of the trace list.
TracesOn(pane) == SelectSeq(plotData, LAMBDA t : t.yaxis = pane)

KeysOn(pane) == [j \in 1..Len(TracesOn(pane)) |-> TraceKey(TracesOn(pane)[j])]

\* The traces of the first example: candlestick and SMA20 on the price
\* pane, RSI on the oscillator pane, MACD, MACD_Signal and the
\* MACD_Histogram bars on the MACD pane, BB_Low, BB_Mid, BB_High in that
\* order on the overlay pane, and nothing else.
ScenarioTraces ==
    /\ Len(plotData) = 9
    /\ Range(KeysOn("y")) = {"price", "SMA20"}
    /\ \E j \in 1..Len(plotData) :
           /\ TraceKey(plotData[j]) = "price"
           /\ plotData[j].type = "candlestick"
    /\ KeysOn("y2") = <<"RSI">>
    /\ Range(KeysOn("y3")) = {"MACD", "MACD_Signal", "MACD_Histogram"}
    /\ Len(KeysOn("y3")) = 3
    /\ \A j \in 1..Len(plotData) :
           TraceKey(plotData[j]) = "MACD_Histogram" => plotData[j].type = "bar"
    /\ KeysOn("y4") = <<"BB_Low", "BB_Mid", "BB_High">>
    /\ KeysOn("y5") = <<>>

C23_BuildersAgreeWithClassifier ==
    Rendered =>
        \A j \in 1..Len(plotData) :
            "key" \in DOMAIN plotData[j] =>
                /\ getIndicatorSubplot(plotData[j].key) # NullAxis
                /\ plotData[j].yaxis = getIndicatorSubplot(plotData[j].key)

\* A figure was built with an indicator trace on each of the five panes.
C23_Witness ==
    /\ Rendered
    /\ \A p \in 1..Len(PaneOrder) :
           \E j \in 1..Len(plotData) :
               /\ "key" \in DOMAIN plotData[j]
               /\ plotData[j].yaxis = PaneOrder[p]

\* C24: loading is true in every state in which a getChartData call is in
\* flight, also when two calls overlap; loading is false only when no call
\* remains in flight.
C24_LoadingWhileInFlight == requests # {} => loading = TRUE

----------------------------------------------------------------------------
\* Properties of the report page guarded by refs (checked under SpecReport).

\* The generateReport calls past their guard and not yet returned.
Generations == {c \in calls : c.fn = "generateReport"}

\* C25: at most one report generation is in flight at any time; the guard
\* generatingReport.current is set exactly while one is, so a call made
\* while it is set starts nothing and the guard is released when the
\* generation ends, whether it succeeded or failed.
C25_OneGenerationInFlight ==
    /\ Cardinality(Generations) <= 1
    /\ generatingReport <=> Generations # {}
    /\ Cardinality({c \in calls : c.at \in {"generateCharts", "generate_report"}}) <= 1

\* generateReport was called while a generation was in flight and returned
\* at its guard.
C25_Witness ==
    /\ last = "blocked"
    /\ selectedSymbol # ""
    /\ generatingReport
    /\ Cardinality(Generations) = 1

\* The selection of the page, as a generate_report request names it.
Selection ==
    [symbol |-> selectedSymbol,
     parameter_set |-> selectedParameterSet,
     period |-> period,
     language |-> language]

\* C27: whenever a generated report is shown (reportUrl and reportContent
\* non-empty, not loading, no error), the content shown is that of a report
\* generated for the symbol, parameter set, period and language selected
\* now: a generation started before a change of the selection never has
\* its result shown after the change.
C27_ShownReportMatchesSelection ==
    (ReportView = "report" /\ "report" \in DOMAIN reportContent.of) =>
        reportContent.of.report = Selection

\* C29: when the route symbol ends with '.html', then as long as the user
\* has changed nothing, mounting issues no generateCharts and no
\* generate_report request and fetches the report file exactly once, and
\* once every request of the mount has succeeded the file is shown.
C29_DirectLinkMount ==
    (symbol # "" /\ IsHtml(symbol) /\ last # "construct" /\ interactions = 0) =>
        /\ sent["generateCharts"] = 0
        /\ sent["generate_report"] = 0
        /\ sent["report_file"] = 1
        /\ (calls = {} /\ error = Null) =>
               /\ ReportView = "report"
               /\ reportUrl = ReportPath(symbol)
               /\ reportContent = Content(ReportPath(symbol))

\* A direct link was mounted, both effects ran to their end, and the file
\* is shown.
C29_Witness ==
    /\ symbol # ""
    /\ IsHtml(symbol)
    /\ interactions = 0
    /\ calls = {}
    /\ sent["getParameters"] = 1
    /\ sent["report_file"] = 1
    /\ ReportView = "report"

----------------------------------------------------------------------------
\* Properties of the report page built on useReportManager (checked under
\* SpecHook).

\* C26: generateReport of the hook sends no request while another report
\* generation or report fetch is in progress, so two generate_report
\* requests are never in flight at the same time.
C26_OneGenerateRequestInFlight ==
    Cardinality({c \in calls : c.at = "generate_report"}) <= 1

\* Nothing is pending: no call awaits a response and no debounce timer
\* runs.
Quiescent ==
    /\ last # "construct"
    /\ calls = {}
    /\ debounced =
           Debounced(selectedSymbol, selectedParameterSet, period, language)

\* C28, as the final result of a run: once generateReport has succeeded
\* (the report_url is kept, the state is 'success') and nothing is pending,
\* the report is displayed: loading false, error null, reportUrl set and
\* reportContent non-empty, not the 'report not found' placeholder.
C28_GeneratedReportDisplayed ==
    (Quiescent /\ reportState = "success" /\ reportUrl # Null
     /\ ~loading /\ error = Null) =>
        /\ Truthy(reportContent)
        /\ ReportView = "report"

----------------------------------------------------------------------------
\* Properties of getRecentReports (checked under SpecRecent).

\* C30: getRecentReports never rejects on a 404 response, it resolves with
\* the mock list; on success it resolves with the server's data; on every
\* other failure (another status, or no response) it rethrows the error.
C30_MockOn404Only ==
    settled # Null =>
        LET outcome == settled.outcome
            result == settled.result
        IN  /\ (outcome.kind = "response" /\ outcome.status = 404) =>
                   /\ result = Resolved(MockReports)
                   /\ last = "settle" => recentReports = MockReports
            /\ (outcome.kind = "response" /\ outcome.status \in {200, 201}) =>
                   result = Resolved(outcome.data)
            /\ (outcome.kind = "no response"
                \/ outcome.status \in {400, 401, 403, 500, 503}) =>
                   /\ result = Rejected(outcome)
                   /\ last = "settle" => Truthy(error)

\* A request ended with a 404 response and the hook lists the mock reports
\* without an error, after an earlier request had failed otherwise.
C30_Witness ==
    /\ settled # Null
    /\ settled.outcome.kind = "response"
    /\ settled.outcome.status = 404
    /\ settled.outcome.data # MockReports
    /\ recentReports = MockReports
    /\ error = Null
    /\ issued = 2

====
